---- MODULE Spec2Model ----
(***************************************************************************)
(* Model of the panthalassa messaging core.                                *)
(*                                                                         *)
(* Part I  : backend.Backend, the authenticated request/response channel   *)
(*           (NewServerBackend: OnMessage callback, send loop, Close).     *)
(* Part II : chat.Chat.SendMessage, the send path of the chat.             *)
(***************************************************************************)
EXTENDS Integers, Sequences, FiniteSets, TLC

VARIABLES
    \* ---- package panthalassa: the process-wide instance ----
    panthalassaInstance,
    piOp,
    piCalls,
    \* ---- device_api.Api ----
    daNextID,
    daState,
    daChan,
    daRecv,
    \* ---- Backend.lock and the goroutines that take it ----
    lkHolder,
    lkPc,
    lkChain,
    lkWaiting,
    lkDelivered,
    \* ---- the envelope handed to the OnMessage callback ----
    inbound,
    \* ---- db.BoltSharedSecretStorage ----
    sssStore,
    sssOp,
    sssRet,
    sssCalls,
    \* ---- backend.Backend ----
    authenticated,   \* Backend.authenticated
    stack,           \* Backend.stack: the request ids that have a response channel registered
    outReqQueue,     \* Backend.outReqQueue: request ids waiting for the send loop
    requestHandler,  \* Backend.requestHandler: the ordered handler chain
    closer,          \* Backend.closer: number of signals buffered in the channel
    loopPc,          \* position of the send-loop goroutine
    transmitting,    \* request ids whose transmit goroutine has been spawned and not yet run
    onWire,          \* request ids the transport accepted for transmission
    respChan,        \* per request id: the outcomes written to its response channel, in order
                     \* (the writes of the callback and of the transmit goroutines)
    nextReqID,       \* number of request ids allocated so far
    transportClosed, \* the transport has been closed
    failedTx,        \* request ids whose transmission returned an error
    dispatch,        \* the OnMessage turn executed by the last step (NoDispatch otherwise)
    \* ---- chat.Chat.SendMessage ----
    smPc,            \* position of the running SendMessage call ("idle": none)
    smRet,           \* what the last SendMessage call returned: "none", "nil", "err"
    statusLog,       \* messageDB.UpdateStatus calls of the current call, in order
    msgStatus,       \* status of the message in the message store
    secrets,         \* sharedSecStorage: the shared secrets stored for the receiver
    ss,              \* the shared secret GetYoungest returned
    proto,           \* the result of x3dh.CalculateSecret
    preKeyStore,     \* userStorage: the signed pre key stored for the receiver
    msgFields,       \* the handshake fields set on msg and msgToSend
    submitted,       \* the chat messages the backend accepted
    sendCount,       \* number of SendMessage calls started
    \* ---- chat.Chat.messagesHandler ----
    mhPc,            \* position of the running messagesHandler call ("idle": none)
    mhBatch,         \* req.Messages: per message, whether handleReceivedMessage fails on it
    mhNext,          \* index of the message the range loop is at
    wg,              \* counter of the sync.WaitGroup
    taskPc,          \* per message: position of its goroutine
    handled,         \* per message: number of handleReceivedMessage calls on it
    logged,          \* the messages whose error was logged
    finished,        \* the messages in the order their goroutines called wg.Done
    mhRet,           \* what the last messagesHandler call returned
    \* ---- chat.Chat.oneTimePreKeysHandler ----
    pool,            \* oneTimePreKeyStorage: the key pairs put into the pool
    keyCount,        \* number of key pairs the curve has generated
    otpkReq,         \* the last request: NewOneTimePreKeys and the call that fails
    otpkRet,         \* what the last oneTimePreKeysHandler call returned
    replenishCount,  \* number of oneTimePreKeysHandler calls
    \* ---- chat.Chat.InitializeChat, chat.Chat.HandleInitialMessage ----
    kaKeys,          \* the private keys of the round: initiator's and partner's
    kaInit,          \* what InitializeChat returned: the message and the protocol
    kaWire,          \* the message as it reaches the partner
    kaAccept,        \* what HandleInitialMessage returned, and the bundle it was given
    \* ---- api.DoubleRatchetKeyStoreApi, client.DoubleRatchetKeyStore ----
    ksOp,            \* the key store operation called last, with its arguments
    ksPc,            \* its position: "idle", "waiting" for the response, "returned"
    ksSent,          \* the request it transmitted
    ksReply,         \* what came back for the request
    ksRet,           \* what the operation returned to its caller
    ksRemote,        \* the remote store: the payload stored per key and message number
    ksRef,           \* the reference key map: the message key per key and message number
    ksFailed,        \* a call or the remote has failed so far
    ksCalls,         \* number of key store operations called
    \* ---- db.BoltChatMessageStorage ----
    msStore,         \* per partner: the bucket of the partner, the record per key
    msOp,            \* the operation called last, with its arguments
    msRet,           \* what the operation returned
    msEvent,         \* the MessagePersistedEvent the commit handed to the listeners
    msCalls,         \* number of messages persisted: the source of the uuids
    msNow,           \* the clock: the last reading of time.Now
    msNotified,      \* postPersistListener: per listener, the events of the goroutines
                     \* started for it, in order
    msDelivered      \* per listener: the number of these goroutines that have called it

backendVars == << authenticated, stack, outReqQueue, requestHandler, closer, loopPc,
                  transmitting, onWire, respChan, nextReqID, transportClosed,
                  failedTx, dispatch >>

chatVars == << smPc, smRet, statusLog, msgStatus, secrets, ss, proto, preKeyStore,
               msgFields, submitted, sendCount >>

recvVars == << mhPc, mhBatch, mhNext, wg, taskPc, handled, logged, finished, mhRet >>

preKeyVars == << pool, keyCount, otpkReq, otpkRet, replenishCount >>

kaVars == << kaKeys, kaInit, kaWire, kaAccept >>

ksVars == << ksOp, ksPc, ksSent, ksReply, ksRet, ksRemote, ksRef, ksFailed, ksCalls >>

msVars == << msStore, msOp, msRet, msEvent, msCalls, msNow, msNotified, msDelivered >>

sssVars == << sssStore, sssOp, sssRet, sssCalls >>

inboundVars == << inbound >>

lockVars == << lkHolder, lkPc, lkChain, lkWaiting, lkDelivered >>

daVars == << daNextID, daState, daChan, daRecv >>

instanceVars == << panthalassaInstance, piOp, piCalls >>

vars == << backendVars, chatVars, recvVars, preKeyVars, kaVars, ksVars, msVars, sssVars, inboundVars, lockVars, daVars,
          instanceVars >>

\* what the actions of one part leave unchanged
exceptBackend == << chatVars, recvVars, preKeyVars, kaVars, ksVars, msVars, sssVars, inboundVars, lockVars, daVars,
    instanceVars >>

exceptChat == << backendVars, recvVars, preKeyVars, kaVars, ksVars, msVars, sssVars, inboundVars, lockVars, daVars,
    instanceVars >>

exceptRecv == << backendVars, chatVars, preKeyVars, kaVars, ksVars, msVars, sssVars, inboundVars, lockVars, daVars,
    instanceVars >>

exceptPreKeys == << backendVars, chatVars, recvVars, kaVars, ksVars, msVars, sssVars, inboundVars, lockVars, daVars,
    instanceVars >>

exceptKa == << backendVars, chatVars, recvVars, preKeyVars, ksVars, msVars, sssVars, inboundVars, lockVars, daVars,
    instanceVars >>

exceptKs == << backendVars, chatVars, recvVars, preKeyVars, kaVars, msVars, sssVars, inboundVars, lockVars, daVars,
    instanceVars >>

exceptMs == << backendVars, chatVars, recvVars, preKeyVars, kaVars, ksVars, sssVars, inboundVars, lockVars, daVars,
    instanceVars >>

exceptSss == << backendVars, chatVars, recvVars, preKeyVars, kaVars, ksVars, msVars, inboundVars, lockVars, daVars,
    instanceVars >>

\* what the callback with the envelope on record leaves unchanged
exceptOnMessage == << chatVars, recvVars, preKeyVars, kaVars, ksVars, msVars, sssVars, lockVars, daVars,
    instanceVars >>

exceptInbound == << backendVars, chatVars, recvVars, preKeyVars, kaVars, ksVars, msVars, sssVars, lockVars, daVars,
    instanceVars >>

exceptLock == << backendVars, chatVars, recvVars, preKeyVars, kaVars, ksVars, msVars, sssVars, inboundVars, daVars,
    instanceVars >>

exceptDa == << backendVars, chatVars, recvVars, preKeyVars, kaVars, ksVars, msVars, sssVars, inboundVars, lockVars,
    instanceVars >>

exceptInstance == << backendVars, chatVars, recvVars, preKeyVars, kaVars, ksVars, msVars, sssVars, inboundVars, lockVars, daVars >>

----------------------------------------------------------------------------
(* Bounds of the model *)

\* number of requests submitted with Send
MaxRequests == 2
\* number of handlers added after the implicit auth handler
MaxHandlers == 2
\* number of messages in the batch of an inbound request
MaxBatch == 1
\* number of SendMessage calls
MaxSends == 2
\* number of shared secrets stored for the partner by racing flows
MaxRacing == 2
\* number of chat messages in the batch given to messagesHandler
MaxMessages == 3
\* number of oneTimePreKeysHandler calls
MaxReplenish == 2
\* number of private keys the parties of a key agreement draw theirs from
MaxKeys == 2
\* number of key store operations
MaxCalls == 3
\* number of double ratchet session keys the key store is indexed with
MaxSessionKeys == 1
\* largest message number the key store is indexed with
MaxMsgNum == 2
\* number of messages persisted
MaxPersists == 3
\* latest timestamp of a message, counted from 2147483647
MaxTime == 2
\* largest amount asked of Messages
MaxAmount == 2
\* number of listeners added to the message store
MaxListeners == 2

(* Program constants *)

\* capacity of outReqQueue
OutReqQueueCap == 150
\* capacity of the closer channel
CloserCap == 1
\* largest number of one time pre keys a request may ask for
MaxOneTimePreKeys == 100
\* length of a double ratchet key in bytes
KeyLength == 32
\* what DoubleRatchetKeyStore.Count returns
ClientCount == 9
\* the statuses of a message
StatusSent == 100
StatusFailedToSend == 200
StatusDelivered == 300
StatusFailedToHandle == 400
StatusPersisted == 500
\* the version persistMessage sets
DAppMessageVersion == 1
\* length of an ed25519 public key in bytes
PublicKeyLength == 32
\* number of keys persistMessage tries before it gives up
MaxTried == 1000

----------------------------------------------------------------------------
(* The wire envelope, bpb.BackendMessage *)

Nil == [nil |-> TRUE]

\* request ids an inbound envelope may carry; 0 is never allocated by Send
ReqIDs == 0..MaxRequests

PreKeyCounts == {0, MaxOneTimePreKeys, MaxOneTimePreKeys + 1}

Requests == [auth : BOOLEAN, messages : 0..MaxBatch, newOneTimePreKeys : PreKeyCounts]

Responses == [auth : BOOLEAN]

\* the inbound envelopes; the Error string is read in the response branch
\* only, and is left empty on the envelopes that carry a request
Envelopes == {m \in [RequestID : ReqIDs,
                     Request   : Requests \cup {Nil},
                     Response  : Responses \cup {Nil},
                     Error     : {"", "remote error"}] :
                 m.Request # Nil => m.Error = ""}

NoDispatch == [kind |-> "none"]

Kind(msg) ==
    IF msg.Request # Nil /\ msg.Response # Nil THEN "both"
    ELSE IF msg.Request # Nil THEN "request"
    ELSE IF msg.Response # Nil THEN "response"
    ELSE "neither"

----------------------------------------------------------------------------
(* requestStack: the correlation table *)

\* requestStack.Add
StackAdd(s, id) == s \cup {id}

\* requestStack.Cut: the table without the entry
StackCut(s, id) == s \ {id}

\* requestStack.Cut: whether a response channel is returned
StackHas(s, id) == id \in s

----------------------------------------------------------------------------
(* The request handlers *)

\* Backend.auth, the implicit first handler
AuthHandler(req, fails) ==
    IF ~req.auth THEN "nil"
    ELSE IF fails THEN "err" ELSE "resp"

\* Chat.messagesHandler
MessagesHandler(req, fails) ==
    IF req.messages > 0 THEN "resp" ELSE "nil"

\* faulty variant: a request for the largest allowed number is rejected too
OneTimePreKeysHandlerOffByOne(req, fails) ==
    IF req.newOneTimePreKeys = 0 THEN "nil"
    ELSE IF req.newOneTimePreKeys >= MaxOneTimePreKeys THEN "err"
    ELSE IF fails THEN "err" ELSE "resp"

\* Chat.oneTimePreKeysHandler
OneTimePreKeysHandler(req, fails) ==
    IF req.newOneTimePreKeys = 0 THEN "nil"
    ELSE IF req.newOneTimePreKeys > MaxOneTimePreKeys THEN "err"
    ELSE IF fails THEN "err" ELSE "resp"

HandlerResult(h, req, fails) ==
    CASE h = "auth" -> AuthHandler(req, fails)
      [] h = "messagesHandler" -> MessagesHandler(req, fails)
      [] h = "oneTimePreKeysHandler" -> OneTimePreKeysHandler(req, fails)

ChatHandlers == {"messagesHandler", "oneTimePreKeysHandler"}

----------------------------------------------------------------------------
(* OnMessage, request branch: the walk over the handler chain.             *)
(* hf is the index of the handler that fails internally (0: none), sf the  *)
(* index of the handler whose transport.Send fails (0: none).  The result   *)
(* records the handlers invoked with what each returned, the envelopes     *)
(* sent back and whether the callback returned an error.                   *)

RECURSIVE RunHandlers(_, _, _, _, _, _)

\* what the loop does after a handler's response has been sent
AfterResponseSent(hs, i, req, hf, sf, acc) ==
    RunHandlers(hs, i + 1, req, hf, sf, acc)

RunHandlers(hs, i, req, hf, sf, acc) ==
    IF i > Len(hs) THEN acc
    ELSE LET r    == HandlerResult(hs[i], req, hf = i)
             acc1 == [acc EXCEPT !.invoked = Append(@, [h |-> hs[i], r |-> r])]
         IN  IF r = "err"
             THEN IF sf = i
                  THEN [acc1 EXCEPT !.err = TRUE]
                  ELSE [acc1 EXCEPT !.sent = Append(@, "error")]
             ELSE IF r = "nil"
             THEN RunHandlers(hs, i + 1, req, hf, sf, acc1)
             ELSE IF sf = i
                  THEN [acc1 EXCEPT !.err = TRUE]
                  ELSE AfterResponseSent(hs, i, req, hf, sf,
                                         [acc1 EXCEPT !.sent = Append(@, "response")])

EmptyTurn(msg) ==
    [kind |-> Kind(msg), id |-> msg.RequestID, invoked |-> << >>,
     sent |-> << >>, err |-> FALSE]

----------------------------------------------------------------------------
(* Backend as NewServerBackend returns it *)
InitBackend ==
    /\ authenticated = FALSE
    /\ stack = {}
    /\ outReqQueue = << >>
    /\ requestHandler = << "auth" >>
    /\ closer = 0
    /\ loopPc = "auth"
    /\ transmitting = {}
    /\ onWire = {}
    /\ respChan = [id \in 1..MaxRequests |-> << >>]
    /\ nextReqID = 0
    /\ transportClosed = FALSE
    /\ failedTx = {}
    /\ dispatch = NoDispatch

----------------------------------------------------------------------------
(* Backend.AddRequestHandler *)
AddRequestHandler ==
    /\ Len(requestHandler) < 1 + MaxHandlers
    /\ \E h \in ChatHandlers : requestHandler' = Append(requestHandler, h)
    /\ dispatch' = NoDispatch
    /\ UNCHANGED << authenticated, stack, outReqQueue, closer, loopPc, transmitting,
                    onWire, respChan, nextReqID, transportClosed, failedTx >>
    /\ UNCHANGED exceptBackend

(* Send: a fresh request id, its response channel registered in the        *)
(* correlation table, the request put on the outgoing queue                *)
Send ==
    /\ nextReqID < MaxRequests
    /\ Len(outReqQueue) < OutReqQueueCap
    /\ nextReqID' = nextReqID + 1
    /\ stack' = StackAdd(stack, nextReqID + 1)
    /\ outReqQueue' = Append(outReqQueue, nextReqID + 1)
    /\ dispatch' = NoDispatch
    /\ UNCHANGED << authenticated, requestHandler, closer, loopPc, transmitting,
                    onWire, respChan, transportClosed, failedTx >>
    /\ UNCHANGED exceptBackend

----------------------------------------------------------------------------
(* The OnMessage callback of NewServerBackend *)

\* faulty variant: the guard is missing
RejectsNothing(msg) == FALSE

\* the guard on an envelope carrying a request and a response
RejectsBoth(msg) == msg.Request # Nil /\ msg.Response # Nil

\* the request branch
OnRequest(msg, hf, sf) ==
    /\ dispatch' = RunHandlers(requestHandler, 1, msg.Request, hf, sf, EmptyTurn(msg))
    /\ UNCHANGED << authenticated, stack, respChan >>

\* faulty variant: the table is popped like a stack, whatever the RequestID
CutAnyID(msg) ==
    IF stack = {} THEN msg.RequestID
    ELSE CHOOSE id \in stack : \A other \in stack : other <= id

\* the request id whose entry the response branch cuts
CutID(msg) == msg.RequestID

\* faulty variant: every matched response without error sets the flag
AuthWithoutMarker(msg) == TRUE

\* the authenticated flag after a response without error has been matched
AuthAfterResponse(msg) == authenticated \/ msg.Response.auth

\* faulty variant: the authentication marker is applied before the entry is cut
OnResponseAuthFirst(msg) ==
    LET id == msg.RequestID IN
    /\ authenticated' = (authenticated \/ (msg.Error = "" /\ msg.Response.auth))
    /\ IF ~StackHas(stack, id)
       THEN /\ dispatch' = [EmptyTurn(msg) EXCEPT !.err = TRUE]
            /\ UNCHANGED << stack, respChan >>
       ELSE /\ stack' = StackCut(stack, id)
            /\ dispatch' = EmptyTurn(msg)
            /\ respChan' = [respChan EXCEPT ![id] =
                   Append(@, [kind |-> IF msg.Error # "" THEN "remoteErr" ELSE "resp",
                              id |-> msg.RequestID])]

\* the response branch
OnResponse(msg) ==
    LET id == CutID(msg) IN
    IF ~StackHas(stack, id)
    THEN /\ dispatch' = [EmptyTurn(msg) EXCEPT !.err = TRUE]
         /\ UNCHANGED << authenticated, stack, respChan >>
    ELSE /\ stack' = StackCut(stack, id)
         /\ dispatch' = EmptyTurn(msg)
         /\ IF msg.Error # ""
            THEN /\ respChan' = [respChan EXCEPT ![id] =
                        Append(@, [kind |-> "remoteErr", id |-> msg.RequestID])]
                 /\ UNCHANGED authenticated
            ELSE /\ authenticated' = AuthAfterResponse(msg)
                 /\ respChan' = [respChan EXCEPT ![id] =
                        Append(@, [kind |-> "resp", id |-> msg.RequestID])]

\* faulty variant: the envelope is refused with an error
NeitherRefused == TRUE

\* what the callback returns for an envelope with neither a request nor a
\* response: the "dropping message" warning, then nil
NeitherIsError == FALSE

OnNeither(msg) ==
    /\ dispatch' = [EmptyTurn(msg) EXCEPT !.err = NeitherIsError]
    /\ UNCHANGED << authenticated, stack, respChan >>

\* one turn of the callback on envelope msg
OnMessageOf(msg, hf, sf) ==
    IF RejectsBoth(msg)
    THEN /\ dispatch' = [EmptyTurn(msg) EXCEPT !.err = TRUE]
         /\ UNCHANGED << authenticated, stack, respChan >>
    ELSE IF msg.Request # Nil THEN OnRequest(msg, hf, sf)
    ELSE IF msg.Response # Nil THEN OnResponse(msg)
    ELSE OnNeither(msg)

\* the callback on an envelope of the remote peer that carries a request only
OnInboundRequest ==
    /\ ~transportClosed
    /\ \E msg \in {m \in Envelopes : m.Request # Nil /\ m.Response = Nil} :
         \E hf \in 0..Len(requestHandler), sf \in 0..Len(requestHandler) :
            OnMessageOf(msg, hf, sf)
    /\ UNCHANGED << outReqQueue, requestHandler, closer, loopPc, transmitting,
                    onWire, nextReqID, transportClosed, failedTx >>
    /\ UNCHANGED exceptBackend

\* the callback on an envelope that carries a response only
OnInboundResponse ==
    /\ ~transportClosed
    /\ \E msg \in {m \in Envelopes : m.Request = Nil /\ m.Response # Nil} :
         OnMessageOf(msg, 0, 0)
    /\ UNCHANGED << outReqQueue, requestHandler, closer, loopPc, transmitting,
                    onWire, nextReqID, transportClosed, failedTx >>
    /\ UNCHANGED exceptBackend

\* the callback on an envelope that carries neither a request nor a response
OnInboundNeither ==
    /\ ~transportClosed
    /\ \E msg \in {m \in Envelopes : m.Request = Nil /\ m.Response = Nil} :
         OnMessageOf(msg, 0, 0)
    /\ UNCHANGED << outReqQueue, requestHandler, closer, loopPc, transmitting,
                    onWire, nextReqID, transportClosed, failedTx >>
    /\ UNCHANGED exceptBackend

\* the callback on an envelope that carries a request and a response
OnInboundBoth ==
    /\ ~transportClosed
    /\ \E msg \in {m \in Envelopes : m.Request # Nil /\ m.Response # Nil} :
         OnMessageOf(msg, 0, 0)
    /\ UNCHANGED << outReqQueue, requestHandler, closer, loopPc, transmitting,
                    onWire, nextReqID, transportClosed, failedTx >>
    /\ UNCHANGED exceptBackend

\* no envelope has been handed to the callback yet
InitInbound == inbound = Nil

\* the envelopes handed to the callback while the chain holds the auth handler
\* only, which reads nothing of a request but its Auth part
InboundEnvelopes ==
    {m \in Envelopes :
        m.Request # Nil => m.Request.messages = 0 /\ m.Request.newOneTimePreKeys = 0}

\* trans.OnMessage: the transport hands an envelope of the remote peer to the
\* callback, whatever it carries; the handler of a request may fail, or the
\* Send of its answer
OnMessage ==
    /\ ~transportClosed
    /\ \E msg \in InboundEnvelopes :
         \E hf \in IF msg.Request = Nil THEN {0} ELSE 0..Len(requestHandler),
            sf \in IF msg.Request = Nil THEN {0} ELSE 0..Len(requestHandler) :
            /\ OnMessageOf(msg, hf, sf)
            /\ inbound' = msg
    /\ UNCHANGED << outReqQueue, requestHandler, closer, loopPc, transmitting,
                    onWire, nextReqID, transportClosed, failedTx >>
    /\ UNCHANGED exceptOnMessage

----------------------------------------------------------------------------
(* The send loop goroutine of NewServerBackend *)

\* faulty variant: the loop does not wait for the authentication
MayDrainAlways == TRUE

\* the test at the head of the loop
MayDrain == authenticated

SendLoopWaitAuth ==
    /\ loopPc = "auth"
    /\ loopPc' = IF MayDrain THEN "select" ELSE "auth"
    /\ dispatch' = NoDispatch
    /\ UNCHANGED << authenticated, stack, outReqQueue, requestHandler, closer,
                    transmitting, onWire, respChan, nextReqID, transportClosed,
                    failedTx >>
    /\ UNCHANGED exceptBackend

\* select: case <-b.closer
SendLoopClosed ==
    /\ loopPc = "select"
    /\ closer > 0
    /\ closer' = closer - 1
    /\ loopPc' = "done"
    /\ dispatch' = NoDispatch
    /\ UNCHANGED << authenticated, stack, outReqQueue, requestHandler,
                    transmitting, onWire, respChan, nextReqID, transportClosed,
                    failedTx >>
    /\ UNCHANGED exceptBackend

\* faulty variant: the transmission is started without the stack.Add
SendLoopTakeNoAdd ==
    /\ loopPc = "select"
    /\ outReqQueue # << >>
    /\ outReqQueue' = Tail(outReqQueue)
    /\ transmitting' = transmitting \cup {Head(outReqQueue)}
    /\ loopPc' = "auth"
    /\ dispatch' = NoDispatch
    /\ UNCHANGED << authenticated, stack, requestHandler, closer, onWire, respChan,
                    nextReqID, transportClosed, failedTx >>
    /\ UNCHANGED exceptBackend

\* select: case req := <-b.outReqQueue
SendLoopTake ==
    /\ loopPc = "select"
    /\ outReqQueue # << >>
    /\ stack' = StackAdd(stack, Head(outReqQueue))
    /\ outReqQueue' = Tail(outReqQueue)
    /\ transmitting' = transmitting \cup {Head(outReqQueue)}
    /\ loopPc' = "auth"
    /\ dispatch' = NoDispatch
    /\ UNCHANGED << authenticated, requestHandler, closer, onWire, respChan,
                    nextReqID, transportClosed, failedTx >>
    /\ UNCHANGED exceptBackend

\* the goroutine spawned for one request: transport.Send succeeded (it does
\* not on a closed transport)
TransmitOk ==
    /\ ~transportClosed
    /\ \E id \in transmitting :
         /\ transmitting' = transmitting \ {id}
         /\ onWire' = onWire \cup {id}
    /\ dispatch' = NoDispatch
    /\ UNCHANGED << authenticated, stack, outReqQueue, requestHandler, closer,
                    loopPc, respChan, nextReqID, transportClosed, failedTx >>
    /\ UNCHANGED exceptBackend

\* the goroutine spawned for one request: transport.Send returned an error,
\* which is written to the response channel; the table is left as it is
TransmitError ==
    /\ \E id \in transmitting :
         /\ transmitting' = transmitting \ {id}
         /\ failedTx' = failedTx \cup {id}
         /\ respChan' = [respChan EXCEPT ![id] =
                            Append(@, [kind |-> "transportErr", id |-> id])]
    /\ dispatch' = NoDispatch
    /\ UNCHANGED << authenticated, stack, outReqQueue, requestHandler, closer,
                    loopPc, onWire, nextReqID, transportClosed >>
    /\ UNCHANGED exceptBackend

----------------------------------------------------------------------------
(* Backend.Close: the signal to the send loop, then transport.Close *)
Close ==
    /\ ~transportClosed
    /\ closer < CloserCap
    /\ closer' = closer + 1
    /\ transportClosed' = TRUE
    /\ dispatch' = NoDispatch
    /\ UNCHANGED << authenticated, stack, outReqQueue, requestHandler, loopPc,
                    transmitting, onWire, respChan, nextReqID, failedTx >>
    /\ UNCHANGED exceptBackend

----------------------------------------------------------------------------
(* Part II: chat.Chat.SendMessage *)

NoSecret == [nil |-> TRUE]

\* x3dh public keys as validX3dhPub tells them apart: a key, the all-zero key
KeyValues == {"key", "zero"}

\* the results of x3dh.CalculateSecret: the keys of the initialized protocol
Protocols == [usedOneTimePreKey : KeyValues \cup {"nil"},
              usedSignedPreKey  : KeyValues,
              ephemeralKey      : KeyValues]

NoFields == [baseID |-> FALSE, oneTimePreKey |-> FALSE, signedPreKey |-> FALSE,
             senderChatIDKey |-> FALSE, ephemeralKey |-> FALSE]

InitChat ==
    /\ smPc = "idle"
    /\ smRet = "none"
    /\ statusLog = << >>
    /\ msgStatus = "Persisted"
    /\ secrets = {}
    /\ ss = NoSecret
    /\ proto = NoSecret
    /\ preKeyStore = [present |-> FALSE, validSignature |-> FALSE]
    /\ msgFields = NoFields
    /\ submitted = << >>
    /\ sendCount = 0

\* BoltChatMessageStorage.UpdateStatus: the stored status after the call
UpdateStatus(status, newStatus) == status

\* BoltChatMessageStorage.UpdateStatus: whether the call returns an error
UpdateStatusFails == FALSE

\* an UpdateStatus call of SendMessage
StatusWrite(newStatus) ==
    /\ statusLog' = Append(statusLog, newStatus)
    /\ msgStatus' = UpdateStatus(msgStatus, newStatus)

\* handleSendError: the FailedToSend write, then the error is returned
HandleSendError ==
    /\ StatusWrite("FailedToSend")
    /\ smRet' = "err"
    /\ smPc' = "idle"

\* return err, without handleSendError
ReturnErr ==
    /\ smRet' = "err"
    /\ smPc' = "idle"
    /\ UNCHANGED << statusLog, msgStatus >>

Goto(pc) ==
    /\ smPc' = pc
    /\ UNCHANGED << smRet, statusLog, msgStatus >>

\* sharedSecStorage.GetYoungest: the stored secret with the greatest CreatedAt
GetYoungest(store) ==
    CHOOSE x \in store : \A y \in store : y.createdAt <= x.createdAt

\* a SendMessage call starts, for a message persisted with PersistMessageToSend
SM_Start ==
    /\ smPc = "idle"
    /\ sendCount < MaxSends
    /\ sendCount' = sendCount + 1
    /\ smPc' = "HasAny"
    /\ smRet' = "none"
    /\ statusLog' = << >>
    /\ msgStatus' = "Persisted"
    /\ ss' = NoSecret
    /\ proto' = NoSecret
    /\ msgFields' = NoFields
    /\ UNCHANGED << secrets, preKeyStore, submitted >>
    /\ UNCHANGED exceptChat

\* sharedSecStorage.HasAny
SM_HasAny ==
    /\ smPc = "HasAny"
    /\ \E ok \in BOOLEAN :
         IF ~ok THEN HandleSendError
         ELSE Goto(IF secrets = {} THEN "FetchPreKeyBundle" ELSE "GetYoungest")
    /\ UNCHANGED << secrets, ss, proto, preKeyStore, msgFields, submitted, sendCount >>
    /\ UNCHANGED exceptChat

\* backend.FetchPreKeyBundle
SM_FetchPreKeyBundle ==
    /\ smPc = "FetchPreKeyBundle"
    /\ \E ok \in BOOLEAN :
         IF ~ok THEN HandleSendError ELSE Goto("CalculateSecret")
    /\ UNCHANGED << secrets, ss, proto, preKeyStore, msgFields, submitted, sendCount >>
    /\ UNCHANGED exceptChat

\* x3dh.CalculateSecret
SM_CalculateSecret ==
    /\ smPc = "CalculateSecret"
    /\ \/ HandleSendError /\ UNCHANGED proto
       \/ \E p \in Protocols : proto' = p /\ Goto("SignEphemeralKey")
    /\ UNCHANGED << secrets, ss, preKeyStore, msgFields, submitted, sendCount >>
    /\ UNCHANGED exceptChat

\* km.IdentitySign of the ephemeral key
SM_SignEphemeralKey ==
    /\ smPc = "SignEphemeralKey"
    /\ \E ok \in BOOLEAN :
         IF ~ok THEN ReturnErr ELSE Goto("RandBaseID")
    /\ UNCHANGED << secrets, ss, proto, preKeyStore, msgFields, submitted, sendCount >>
    /\ UNCHANGED exceptChat

\* rand.Read of the 32 bytes of the base id
SM_RandBaseID ==
    /\ smPc = "RandBaseID"
    /\ \E ok \in BOOLEAN :
         IF ~ok THEN ReturnErr ELSE Goto("PutSecret")
    /\ UNCHANGED << secrets, ss, proto, preKeyStore, msgFields, submitted, sendCount >>
    /\ UNCHANGED exceptChat

\* faulty variant: the secret is constructed with a base id of 16 bytes
NewSharedSecretShortID(p, now) ==
    [createdAt |-> now, accepted |-> FALSE, baseIDLen |-> 16,
     usedOneTimePreKey |-> p.usedOneTimePreKey,
     usedSignedPreKey |-> p.usedSignedPreKey,
     ephemeralKey |-> p.ephemeralKey]

\* the SharedSecret SendMessage constructs
NewSharedSecret(p, now) ==
    [createdAt |-> now, accepted |-> FALSE, baseIDLen |-> 32,
     usedOneTimePreKey |-> p.usedOneTimePreKey,
     usedSignedPreKey |-> p.usedSignedPreKey,
     ephemeralKey |-> p.ephemeralKey]

\* sharedSecStorage.Put
SM_PutSecret ==
    /\ smPc = "PutSecret"
    /\ \/ HandleSendError /\ UNCHANGED secrets
       \/ /\ secrets' = secrets \cup {NewSharedSecret(proto, sendCount)}
          /\ Goto("GetYoungest")
    /\ UNCHANGED << ss, proto, preKeyStore, msgFields, submitted, sendCount >>
    /\ UNCHANGED exceptChat

\* faulty variant: SendMessage goes on with the oldest stored secret
SelectsOldest(store) ==
    CHOOSE x \in store : \A y \in store : x.createdAt <= y.createdAt

\* ss, err := c.sharedSecStorage.GetYoungest(receiver): the secret
\* SendMessage goes on with
SelectedSecret(store) == GetYoungest(store)

\* sharedSecStorage.GetYoungest
SM_GetYoungest ==
    /\ smPc = "GetYoungest"
    /\ \/ HandleSendError /\ UNCHANGED ss
       \/ /\ secrets # {}
          /\ ss' = SelectedSecret(secrets)
          /\ Goto("HasSignedPreKey")
    /\ UNCHANGED << secrets, proto, preKeyStore, msgFields, submitted, sendCount >>
    /\ UNCHANGED exceptChat

\* userStorage.HasSignedPreKey
SM_HasSignedPreKey ==
    /\ smPc = "HasSignedPreKey"
    /\ \E ok \in BOOLEAN :
         IF ~ok THEN HandleSendError
         ELSE Goto(IF preKeyStore.present THEN "FetchSignedPreKey" ELSE "Refresh")
    /\ UNCHANGED << secrets, ss, proto, preKeyStore, msgFields, submitted, sendCount >>
    /\ UNCHANGED exceptChat

\* refreshSignedPreKey: the signed pre key of the backend is stored
SM_Refresh ==
    /\ smPc \in {"Refresh", "RefreshExpired"}
    /\ \/ HandleSendError /\ UNCHANGED preKeyStore
       \/ /\ \E valid \in BOOLEAN :
               preKeyStore' = [present |-> TRUE, validSignature |-> valid]
          /\ Goto(IF smPc = "Refresh" THEN "FetchSignedPreKey"
                  ELSE "FetchSignedPreKeyExpired")
    /\ UNCHANGED << secrets, ss, proto, msgFields, submitted, sendCount >>
    /\ UNCHANGED exceptChat

\* faulty variant: fetchSignedPreKey returns the key whatever VerifySignature says
AcceptsAnySignedPreKey(store) == TRUE

\* whether fetchSignedPreKey returns the stored key: its signature verifies
AcceptsSignedPreKey(store) == store.validSignature

\* fetchSignedPreKey and the test of what it returns: on an error
\* handleSendError runs in fetchSignedPreKey and again in SendMessage
SM_FetchSignedPreKey ==
    /\ smPc \in {"FetchSignedPreKey", "FetchSignedPreKeyExpired"}
    /\ \E ok \in BOOLEAN :
         IF ~ok \/ ~AcceptsSignedPreKey(preKeyStore)
         THEN /\ statusLog' = statusLog \o << "FailedToSend", "FailedToSend" >>
              /\ msgStatus' = UpdateStatus(UpdateStatus(msgStatus, "FailedToSend"),
                                           "FailedToSend")
              /\ smRet' = "err"
              /\ smPc' = "idle"
         ELSE Goto(IF smPc = "FetchSignedPreKey" THEN "CheckExpired"
                   ELSE "AttachBaseID")
    /\ UNCHANGED << secrets, ss, proto, preKeyStore, msgFields, submitted, sendCount >>
    /\ UNCHANGED exceptChat

\* signedPreKey.OlderThan(SignedPreKeyValidTimeFrame)
SM_CheckExpired ==
    /\ smPc = "CheckExpired"
    /\ \E expired \in BOOLEAN :
         Goto(IF expired THEN "RefreshExpired" ELSE "AttachBaseID")
    /\ UNCHANGED << secrets, ss, proto, preKeyStore, msgFields, submitted, sendCount >>
    /\ UNCHANGED exceptChat

\* the base id and creation date of a secret that is not accepted are
\* attached to msg
SM_AttachBaseID ==
    /\ smPc = "AttachBaseID"
    /\ IF ss.accepted
       THEN Goto("NewSession") /\ UNCHANGED msgFields
       ELSE IF ss.baseIDLen # 32
       THEN HandleSendError /\ UNCHANGED msgFields
       ELSE Goto("NewSession") /\ msgFields' = [msgFields EXCEPT !.baseID = TRUE]
    /\ UNCHANGED << secrets, ss, proto, preKeyStore, submitted, sendCount >>
    /\ UNCHANGED exceptChat

\* faulty variant: the handshake fields are attached whatever the secret is
AttachesHandshakeAlways(secret) == TRUE

\* if !ss.Accepted: whether the handshake fields are attached to msgToSend
AttachesHandshake(secret) == ~secret.accepted

\* the calls between the attachment and the handshake fields whose error goes
\* through handleSendError, in the order of the code
HandledCalls == << "NewSession", "Marshal", "IdentityPublicKey", "DecodeSender" >>

\* dr.NewWithRemoteKey, proto.Marshal, (RatchetEncrypt, which returns no
\* error,) km.IdentityPublicKey, hex.DecodeString
SM_HandledCall ==
    /\ \E i \in 1..Len(HandledCalls) :
         /\ smPc = HandledCalls[i]
         /\ \E ok \in BOOLEAN :
              IF ~ok THEN HandleSendError
              ELSE Goto(IF i < Len(HandledCalls) THEN HandledCalls[i + 1]
                        ELSE IF AttachesHandshake(ss) THEN "ValidateKeys" ELSE "Submit")
    /\ UNCHANGED << secrets, ss, proto, preKeyStore, msgFields, submitted, sendCount >>
    /\ UNCHANGED exceptChat

\* validX3dhPub
ValidX3dhPub(k) == k # "zero"

\* the handshake keys of a secret that is not accepted are validated and
\* attached to msgToSend
SM_ValidateKeys ==
    /\ smPc = "ValidateKeys"
    /\ IF \/ (ss.usedOneTimePreKey # "nil" /\ ~ValidX3dhPub(ss.usedOneTimePreKey))
          \/ ~ValidX3dhPub(ss.usedSignedPreKey)
          \/ ~ValidX3dhPub(ss.ephemeralKey)
       THEN ReturnErr /\ UNCHANGED msgFields
       ELSE /\ Goto("ChatIdKeyPair")
            /\ msgFields' = [msgFields EXCEPT !.oneTimePreKey = (ss.usedOneTimePreKey # "nil"),
                                  !.signedPreKey = TRUE]
    /\ UNCHANGED << secrets, ss, proto, preKeyStore, submitted, sendCount >>
    /\ UNCHANGED exceptChat

\* km.ChatIdKeyPair
SM_ChatIdKeyPair ==
    /\ smPc = "ChatIdKeyPair"
    /\ \E ok \in BOOLEAN :
         IF ~ok THEN ReturnErr ELSE Goto("SignChatIDKey")
    /\ UNCHANGED << secrets, ss, proto, preKeyStore, msgFields, submitted, sendCount >>
    /\ UNCHANGED exceptChat

\* km.IdentitySign of the chat id key; the chat id key and the ephemeral key
\* are attached to msgToSend
SM_SignChatIDKey ==
    /\ smPc = "SignChatIDKey"
    /\ \/ ReturnErr /\ UNCHANGED msgFields
       \/ /\ Goto("Submit")
          /\ msgFields' = [msgFields EXCEPT !.senderChatIDKey = TRUE, !.ephemeralKey = TRUE]
    /\ UNCHANGED << secrets, ss, proto, preKeyStore, submitted, sendCount >>
    /\ UNCHANGED exceptChat

\* backend.SubmitMessage
SM_Submit ==
    /\ smPc = "Submit"
    /\ \/ HandleSendError /\ UNCHANGED submitted
       \/ /\ submitted' = Append(submitted, msgFields)
          /\ Goto("UpdateSent")
    /\ UNCHANGED << secrets, ss, proto, preKeyStore, msgFields, sendCount >>
    /\ UNCHANGED exceptChat

\* return c.messageDB.UpdateStatus(receiver, msg.MessageID, db.StatusSent)
SM_UpdateSent ==
    /\ smPc = "UpdateSent"
    /\ StatusWrite("Sent")
    /\ smRet' = IF UpdateStatusFails THEN "err" ELSE "nil"
    /\ smPc' = "idle"
    /\ UNCHANGED << secrets, ss, proto, preKeyStore, msgFields, submitted, sendCount >>
    /\ UNCHANGED exceptChat

\* sharedSecStorage.Accept, by the receive path: the partner answered
AcceptSecret ==
    /\ \E x \in secrets :
         /\ ~x.accepted
         /\ secrets' = (secrets \ {x}) \cup {[x EXCEPT !.accepted = TRUE]}
    /\ UNCHANGED << smPc, smRet, statusLog, msgStatus, ss, proto, preKeyStore,
                    msgFields, submitted, sendCount >>
    /\ UNCHANGED exceptChat

\* sharedSecStorage.Put by a flow that races with SendMessage (a send of
\* another call, the handshake of the partner): one more unaccepted secret
\* for the partner, with a creation time of its own
RacingPut ==
    /\ \E t \in (MaxSends + 1)..(MaxSends + MaxRacing) :
         /\ \A x \in secrets : x.createdAt # t
         /\ secrets' = secrets \cup
               {NewSharedSecret([usedOneTimePreKey |-> "nil",
                                 usedSignedPreKey  |-> "key",
                                 ephemeralKey      |-> "key"], t)}
    /\ UNCHANGED << smPc, smRet, statusLog, msgStatus, ss, proto, preKeyStore,
                    msgFields, submitted, sendCount >>
    /\ UNCHANGED exceptChat

\* the calls of SendMessage, one after the other, and the receive path's Accept
NextSendMessage ==
    \/ SM_Start
    \/ SM_HasAny
    \/ SM_FetchPreKeyBundle
    \/ SM_CalculateSecret
    \/ SM_SignEphemeralKey
    \/ SM_RandBaseID
    \/ SM_PutSecret
    \/ SM_GetYoungest
    \/ SM_HasSignedPreKey
    \/ SM_Refresh
    \/ SM_FetchSignedPreKey
    \/ SM_CheckExpired
    \/ SM_AttachBaseID
    \/ SM_HandledCall
    \/ SM_ValidateKeys
    \/ SM_ChatIdKeyPair
    \/ SM_SignChatIDKey
    \/ SM_Submit
    \/ SM_UpdateSent
    \/ AcceptSecret

----------------------------------------------------------------------------
(* Chat.messagesHandler: the receive path of a batch of chat messages *)

\* the batches of a request: per message, whether handleReceivedMessage
\* returns an error on it
Batches ==
    UNION {[1..n -> {"ok", "bad"}] : n \in 0..MaxMessages}

InitRecv ==
    /\ mhPc = "idle"
    /\ mhBatch = << >>
    /\ mhNext = 1
    /\ wg = 0
    /\ taskPc = << >>
    /\ handled = << >>
    /\ logged = {}
    /\ finished = << >>
    /\ mhRet = "none"

\* messagesHandler is called with a request; without messages it returns
\* nil, nil
MH_Start ==
    /\ mhPc \in {"idle", "done"}
    /\ \E b \in Batches :
         /\ mhBatch' = b
         /\ taskPc' = [i \in 1..Len(b) |-> "none"]
         /\ handled' = [i \in 1..Len(b) |-> 0]
         /\ IF Len(b) > 0
            THEN mhPc' = "range" /\ mhRet' = "none"
            ELSE mhPc' = "done" /\ mhRet' = "nil"
    /\ mhNext' = 1
    /\ wg' = 0
    /\ logged' = {}
    /\ finished' = << >>
    /\ UNCHANGED exceptRecv

\* one turn of the range loop: wg.Add(1) and go func(msg)
MH_Spawn ==
    /\ mhPc = "range"
    /\ wg' = wg + 1
    /\ taskPc' = [taskPc EXCEPT ![mhNext] = "handle"]
    /\ mhNext' = mhNext + 1
    /\ mhPc' = IF mhNext = Len(mhBatch) THEN "wait" ELSE "range"
    /\ UNCHANGED << mhBatch, handled, logged, finished, mhRet >>
    /\ UNCHANGED exceptRecv

\* the goroutine of a message: handleReceivedMessage(msg), the error logged
Task_Handle ==
    /\ \E i \in 1..Len(mhBatch) :
         /\ taskPc[i] = "handle"
         /\ handled' = [handled EXCEPT ![i] = @ + 1]
         /\ logged' = IF mhBatch[i] = "bad" THEN logged \cup {i} ELSE logged
         /\ taskPc' = [taskPc EXCEPT ![i] = "defer"]
    /\ UNCHANGED << mhPc, mhBatch, mhNext, wg, finished, mhRet >>
    /\ UNCHANGED exceptRecv

\* the goroutine of a message: the deferred wg.Done()
Task_Done ==
    /\ \E i \in 1..Len(mhBatch) :
         /\ taskPc[i] = "defer"
         /\ wg' = wg - 1
         /\ finished' = Append(finished, i)
         /\ taskPc' = [taskPc EXCEPT ![i] = "done"]
    /\ UNCHANGED << mhPc, mhBatch, mhNext, handled, logged, mhRet >>
    /\ UNCHANGED exceptRecv

\* faulty variant: wg.Wait() returns whatever the counter is
WaitReleasedAlways(counter) == TRUE

\* wg.Wait(): whether the call returns
WaitReleased(counter) == counter = 0

\* faulty variant: the batch fails when the handling of a message failed
BatchResultFailing(errors) == IF errors # {} THEN "err" ELSE "resp"

\* return &bpb.BackendMessage_Response{}, nil
BatchResult(errors) == "resp"

\* wg.Wait() returns and the acknowledgement is returned
MH_Return ==
    /\ mhPc = "wait"
    /\ WaitReleased(wg)
    /\ mhRet' = BatchResult(logged)
    /\ mhPc' = "done"
    /\ UNCHANGED << mhBatch, mhNext, wg, taskPc, handled, logged, finished >>
    /\ UNCHANGED exceptRecv

\* messagesHandler and the goroutines it starts
NextReceive ==
    \/ MH_Start
    \/ MH_Spawn
    \/ Task_Handle
    \/ Task_Done
    \/ MH_Return

----------------------------------------------------------------------------
(* Chat.oneTimePreKeysHandler: the replenishment of the one time pre keys *)

\* the k-th key pair of curve.GenerateKeyPair
KeyPair(k) == [PrivateKey |-> << "private", k >>, PublicKey |-> << "public", k >>]

\* pk.PublicKey = oneTimePreKey.PublicKey; pk.Sign(km); pk.ToProtobuf()
SignedPreKey(keyPair) == [PublicKey |-> keyPair.PublicKey, signed |-> TRUE]

\* req.NewOneTimePreKeys of the requests
ReplenishCounts == {0, 1, 2, MaxOneTimePreKeys, MaxOneTimePreKeys + 1}

\* the call of the handler that returns an error
PreKeyFailures == {"none", "GenerateKeyPair", "Put", "Sign", "ToProtobuf"}

NoPreKeyResult == [kind |-> "none", keys |-> << >>]

InitPreKeys ==
    /\ pool = {}
    /\ keyCount = 0
    /\ otpkReq = [n |-> 0, fails |-> "none"]
    /\ otpkRet = NoPreKeyResult
    /\ replenishCount = 0

\* oneTimePreKeysHandler on a request for n keys; the key pairs are
\* generated one by one (the j-th GenerateKeyPair may fail), put into the
\* pool in one call, then signed and converted one by one
PK_Handle ==
    /\ replenishCount < MaxReplenish
    /\ replenishCount' = replenishCount + 1
    /\ \E n \in ReplenishCounts, f \in PreKeyFailures :
         LET kind == OneTimePreKeysHandler([newOneTimePreKeys |-> n], f # "none")
             keyPairs == [i \in 1..n |-> KeyPair(keyCount + i)]
         IN /\ otpkReq' = [n |-> n, fails |-> f]
            /\ IF n = 0 \/ n > MaxOneTimePreKeys
               THEN /\ f = "none"
                    /\ otpkRet' = [kind |-> kind, keys |-> << >>]
                    /\ UNCHANGED << pool, keyCount >>
               ELSE IF f = "GenerateKeyPair"
               THEN /\ \E j \in {1, n} : keyCount' = keyCount + (j - 1)
                    /\ otpkRet' = [kind |-> kind, keys |-> << >>]
                    /\ UNCHANGED pool
               ELSE /\ keyCount' = keyCount + n
                    /\ pool' = IF f = "Put" THEN pool
                               ELSE pool \cup {keyPairs[i] : i \in 1..n}
                    /\ otpkRet' = [kind |-> kind,
                                   keys |-> IF f = "none"
                                            THEN [i \in 1..n |-> SignedPreKey(keyPairs[i])]
                                            ELSE << >>]
    /\ UNCHANGED exceptPreKeys

----------------------------------------------------------------------------
(* Chat.InitializeChat and Chat.HandleInitialMessage: the X3DH handshake *)

PrivateKeys == 1..MaxKeys

\* the public half of a private key
PublicOf(private) == [public |-> private]

\* the curve's Diffie-Hellman: DH(a, PublicOf(b)) = DH(b, PublicOf(a))
DH(private, public) == {private, public.public}

\* x3dh.CalculateSecret, the initiator's side: identity key i and ephemeral
\* key e against the public bundle of the partner
CalculateSecret(i, e, bundle) ==
    << DH(i, bundle.signedPreKey),
       DH(e, bundle.identityKey),
       DH(e, bundle.signedPreKey),
       DH(e, bundle.oneTimePreKey) >>

\* x3dh.SecretFromRemote, the partner's side: its identity key and the
\* ProtocolInitialisation it was given
SecretFromRemote(myIdentity, init) ==
    << DH(init.MySignedPreKey, init.RemoteIdKey),
       DH(myIdentity, init.RemoteEphemeralKey),
       DH(init.MySignedPreKey, init.RemoteEphemeralKey),
       DH(init.MyOneTimePreKey, init.RemoteEphemeralKey) >>

\* hex.EncodeToString
HexEncode(key) == [hex |-> key]

\* a string that is no hexadecimal string
NotHex == [nothex |-> TRUE]

\* hex.DecodeString: whether it returns an error
HexDecodeFails(str) == str = NotHex

\* hex.DecodeString
HexDecode(str) == str.hex

\* what Message.Sign signs
SignedContent(m) == [Type |-> m.Type, AdditionalData |-> m.AdditionalData,
                     HeaderDH |-> m.HeaderDH, IDPubKey |-> m.IDPubKey]

\* Message.Sign with the identity key of the key manager
SignatureOf(m, identity) == [signer |-> identity, content |-> SignedContent(m)]

\* Message.VerifySignature
VerifySignature(m) == m.Signature = SignatureOf(m, m.IDPubKey.public)

\* the Message InitializeChat constructs and signs; the header of the
\* double ratchet message of encryptMessage carries the chat id key
InitialMessage(i, e, bundle) ==
    LET m == [Type           |-> "PROTOCOL_INITIALISATION",
              AdditionalData |->
                  [f \in {"used_one_time_pre_key", "used_signed_pre_key", "ephemeral_key"} |->
                      CASE f = "used_one_time_pre_key" -> HexEncode(bundle.oneTimePreKey)
                        [] f = "used_signed_pre_key" -> HexEncode(bundle.signedPreKey)
                        [] f = "ephemeral_key" -> HexEncode(PublicOf(e))],
              HeaderDH       |-> PublicOf(i),
              IDPubKey       |-> PublicOf(i)]
    IN [Type           |-> m.Type,
        AdditionalData |-> m.AdditionalData,
        HeaderDH       |-> m.HeaderDH,
        IDPubKey       |-> m.IDPubKey,
        Signature      |-> SignatureOf(m, i)]

NoResult == [kind |-> "none"]

NoKeys == [initiator |-> 1, ephemeral |-> 1, identity |-> 1, signedPreKey |-> 1,
           oneTimePreKey |-> 1]

\* the public pre key bundle the partner published
PublicBundle(keys) ==
    [identityKey   |-> PublicOf(keys.identity),
     signedPreKey  |-> PublicOf(keys.signedPreKey),
     oneTimePreKey |-> PublicOf(keys.oneTimePreKey)]

InitKa ==
    /\ kaKeys = NoKeys
    /\ kaInit = NoResult
    /\ kaWire = NoResult
    /\ kaAccept = NoResult

\* the calls of InitializeChat that return an error
InitializeFailures ==
    {"none", "CalculateSecret", "Read", "encryptMessage", "IdentityPublicKey", "Sign"}

\* InitializeChat against the bundle of a partner; one handshake is followed
KA_InitializeChat ==
    /\ kaInit = NoResult
    /\ \E keys \in [initiator : PrivateKeys, ephemeral : PrivateKeys,
                    identity : PrivateKeys, signedPreKey : PrivateKeys,
                    oneTimePreKey : PrivateKeys],
          f \in InitializeFailures :
         /\ kaKeys' = keys
         /\ IF f # "none"
            THEN /\ kaInit' = [kind |-> "err"]
                 /\ kaWire' = NoResult
            ELSE LET m == InitialMessage(keys.initiator, keys.ephemeral, PublicBundle(keys))
                 IN /\ kaInit' = [kind   |-> "ok",
                                  msg    |-> m,
                                  secret |-> CalculateSecret(keys.initiator, keys.ephemeral,
                                                             PublicBundle(keys))]
                    /\ kaWire' = m
    /\ kaAccept' = NoResult
    /\ UNCHANGED exceptKa

\* the zero value of a key: the field was not set
ZeroKey == [public |-> 0]

\* the transport alters the message: a byte of the signature, the type, the
\* ephemeral key field, the key in the header of the double ratchet message
KA_Tamper ==
    /\ kaInit.kind = "ok"
    /\ kaAccept = NoResult
    /\ kaWire = kaInit.msg
    /\ \/ kaWire' = [kaWire EXCEPT !.Signature.signer = 0]
       \/ kaWire' = [kaWire EXCEPT !.Type = "OTHER"]
       \/ kaWire' = [kaWire EXCEPT !.AdditionalData =
                        [f \in DOMAIN @ \ {"ephemeral_key"} |-> @[f]]]
       \/ kaWire' = [kaWire EXCEPT !.AdditionalData["ephemeral_key"] = NotHex]
       \/ kaWire' = [kaWire EXCEPT !.HeaderDH = ZeroKey]
    /\ UNCHANGED << kaKeys, kaInit, kaAccept >>
    /\ UNCHANGED exceptKa

\* faulty variant: the ephemeral key is read from the signed pre key field
RemoteEphemeralKeyWrongField(m) == HexDecode(m.AdditionalData["used_signed_pre_key"])

\* HandleInitialMessage: the ephemeral key of the initiator
RemoteEphemeralKey(m) == HexDecode(m.AdditionalData["ephemeral_key"])

\* HandleInitialMessage on the message that arrived, with a private bundle
KA_HandleInitialMessage ==
    /\ kaWire # NoResult
    /\ kaAccept = NoResult
    /\ \E spk \in PrivateKeys, otpk \in PrivateKeys, fails \in BOOLEAN :
         LET bundle == [SignedPreKey |-> spk, OneTimePreKey |-> otpk]
             m == kaWire
         IN kaAccept' =
              IF m.Type # "PROTOCOL_INITIALISATION"
              THEN [kind |-> "err", bundle |-> bundle, fails |-> fails]
              ELSE IF "ephemeral_key" \notin DOMAIN m.AdditionalData
              THEN [kind |-> "err", bundle |-> bundle, fails |-> fails]
              ELSE IF HexDecodeFails(m.AdditionalData["ephemeral_key"])
              THEN [kind |-> "err", bundle |-> bundle, fails |-> fails]
              ELSE IF fails
              THEN [kind |-> "err", bundle |-> bundle, fails |-> fails]
              ELSE [kind   |-> "secret",
                    bundle |-> bundle,
                    fails  |-> fails,
                    secret |-> SecretFromRemote(kaKeys.identity,
                                  [RemoteIdKey        |-> m.HeaderDH,
                                   RemoteEphemeralKey |-> RemoteEphemeralKey(m),
                                   MyOneTimePreKey    |-> otpk,
                                   MySignedPreKey     |-> spk])]
    /\ UNCHANGED << kaKeys, kaInit, kaWire >>
    /\ UNCHANGED exceptKa

\* a handshake: the initiator, the transport, the partner
NextKeyAgreement ==
    \/ KA_InitializeChat
    \/ KA_Tamper
    \/ KA_HandleInitialMessage

----------------------------------------------------------------------------
(* The remote key stores of the double ratchet:                            *)
(* api.DoubleRatchetKeyStoreApi and client.DoubleRatchetKeyStore           *)

KeyStores == {"api", "client"}

SessionKeys == 1..MaxSessionKeys

MsgNums == 1..MaxMsgNum

\* a message key: a dr.Key
MessageKey == [id |-> 1, len |-> KeyLength]

\* the zero value dr.Key{}
ZeroMessageKey == [id |-> 0, len |-> KeyLength]

\* km.AESEncrypt
AESEncrypt(plain) == [ciphertext |-> plain, sealed |-> TRUE]

\* the zero value of aes.CipherText
EmptyCipherText == [ciphertext |-> [id |-> 0, len |-> 0], sealed |-> FALSE]

\* a cipher text that was not sealed with the key of the key manager
Undecryptable == [ciphertext |-> MessageKey, sealed |-> FALSE]

\* a payload that is no marshalled cipher text
Malformed == [malformed |-> TRUE]

\* the payloads a Get response may carry
Payloads ==
    {AESEncrypt(MessageKey), AESEncrypt([id |-> 1, len |-> KeyLength \div 2]),
     Undecryptable, EmptyCipherText, Malformed}

\* aes.Unmarshal: whether it returns an error
UnmarshalFails(payload) == payload = Malformed

\* km.AESDecrypt: whether it returns an error
AESDecryptFails(ct) == ~ct.sealed

\* km.AESDecrypt
AESDecrypt(ct) == ct.ciphertext

\* whether a payload decrypts into a key of exactly 32 bytes
DecryptsToKey(payload) ==
    /\ ~UnmarshalFails(payload)
    /\ ~AESDecryptFails(payload)
    /\ AESDecrypt(payload).len = KeyLength

\* copy(msgKey[:], messageKey)
CopyKey(plain) == [id |-> plain.id, len |-> KeyLength]

NoCall == [op |-> "none"]

NoRequest == [op |-> "none"]

NoReply == [kind |-> "none"]

NoReturn == [none |-> TRUE]

Done == [done |-> TRUE]

\* faulty variant: the length of the decrypted key is not tested
AnyKeyLength(plain) == TRUE

\* len(messageKey) != 32
ValidKeyLength(plain) == plain.len = KeyLength

\* DoubleRatchetKeyStoreApi.Get after s.api.request returned
ApiGetResult(reply) ==
    IF reply.kind # "payload" THEN [key |-> ZeroMessageKey, ok |-> FALSE]
    ELSE IF UnmarshalFails(reply.payload) THEN [key |-> ZeroMessageKey, ok |-> FALSE]
    ELSE IF AESDecryptFails(reply.payload) THEN [key |-> ZeroMessageKey, ok |-> FALSE]
    ELSE IF ~ValidKeyLength(AESDecrypt(reply.payload))
    THEN [key |-> ZeroMessageKey, ok |-> FALSE]
    ELSE [key |-> CopyKey(AESDecrypt(reply.payload)), ok |-> TRUE]

\* UnmarshalDRKeyStoreGetResponse: the key of the payload, decrypted
UnmarshalDRKeyStoreGetResponse(payload) ==
    IF DecryptsToKey(payload)
    THEN [err |-> FALSE, Key |-> AESDecrypt(payload), Ok |-> TRUE]
    ELSE [err |-> TRUE, Key |-> ZeroMessageKey, Ok |-> FALSE]

\* DoubleRatchetKeyStore.Get after s.api.Send returned
ClientGetResult(reply) ==
    IF reply.kind # "payload" THEN [key |-> ZeroMessageKey, ok |-> FALSE]
    ELSE LET keyResp == UnmarshalDRKeyStoreGetResponse(reply.payload)
         IN IF keyResp.err THEN [key |-> keyResp.Key, ok |-> FALSE]
            ELSE [key |-> keyResp.Key, ok |-> keyResp.Ok]

GetResult(impl, reply) ==
    IF impl = "api" THEN ApiGetResult(reply) ELSE ClientGetResult(reply)

\* what an operation returns to its caller once its request is over
ResultOf(call, reply) ==
    CASE call.op = "Get" -> GetResult(call.impl, reply)
      [] call.op = "Count" ->
           [count |-> IF reply.kind = "count" THEN reply.count ELSE 0]
      [] OTHER -> Done

InitKs ==
    /\ ksOp = NoCall
    /\ ksPc = "idle"
    /\ ksSent = NoRequest
    /\ ksReply = NoReply
    /\ ksRet = NoReturn
    /\ ksRemote = {}
    /\ ksRef = {}
    /\ ksFailed = FALSE
    /\ ksCalls = 0

\* an operation is called on the key store in use
Calls(call) ==
    /\ ksPc \in {"idle", "returned"}
    /\ ksCalls < MaxCalls
    /\ IF ksCalls = 0 THEN TRUE ELSE call.impl = ksOp.impl
    /\ ksCalls' = ksCalls + 1
    /\ ksOp' = call

\* the operation returns without a request on the wire
ReturnsAtOnce(call, reply) ==
    /\ ksSent' = NoRequest
    /\ ksReply' = reply
    /\ ksRet' = ResultOf(call, reply)
    /\ ksPc' = "returned"

\* s.api.request / s.api.Send: the request is transmitted, or the call
\* returns an error
Requests_(call, request, sendFails) ==
    IF sendFails
    THEN ReturnsAtOnce(call, [kind |-> "sendErr"])
    ELSE /\ ksSent' = request
         /\ ksReply' = NoReply
         /\ ksRet' = NoReturn
         /\ ksPc' = "waiting"

\* Get(k, msgNum)
KS_Get ==
    /\ \E impl \in KeyStores, k \in SessionKeys, n \in MsgNums, sendFails \in BOOLEAN :
         LET call == [impl |-> impl, op |-> "Get", k |-> k, n |-> n]
         IN /\ Calls(call)
            /\ Requests_(call, [op |-> "Get", k |-> k, n |-> n], sendFails)
            /\ ksFailed' = (ksFailed \/ sendFails)
    /\ UNCHANGED << ksRemote, ksRef >>
    /\ UNCHANGED exceptKs

\* Put(k, msgNum, mk): DoubleRatchetKeyStoreApi returns when the encryption
\* or the marshalling fails; DoubleRatchetKeyStore logs the error and goes on
\* with the cipher text it has
KS_Put ==
    /\ \E impl \in KeyStores, k \in SessionKeys, n \in MsgNums,
          encryptFails \in BOOLEAN, sendFails \in BOOLEAN :
         LET call == [impl |-> impl, op |-> "Put", k |-> k, n |-> n, mk |-> MessageKey,
                      encryptFails |-> encryptFails]
             ct == IF encryptFails THEN EmptyCipherText ELSE AESEncrypt(MessageKey)
         IN /\ Calls(call)
            /\ IF impl = "api" /\ encryptFails
               THEN ReturnsAtOnce(call, NoReply)
               ELSE Requests_(call, [op |-> "Put", k |-> k, n |-> n, key |-> ct], sendFails)
            /\ ksFailed' = (ksFailed \/ encryptFails \/ sendFails)
            /\ ksRef' = {e \in ksRef : ~(e.k = k /\ e.n = n)}
                           \cup {[k |-> k, n |-> n, mk |-> MessageKey]}
    /\ UNCHANGED ksRemote
    /\ UNCHANGED exceptKs

\* DeleteMk(k, msgNum)
KS_DeleteMk ==
    /\ \E impl \in KeyStores, k \in SessionKeys, n \in MsgNums, sendFails \in BOOLEAN :
         LET call == [impl |-> impl, op |-> "DeleteMk", k |-> k, n |-> n]
         IN /\ Calls(call)
            /\ Requests_(call, [op |-> "DeleteMk", k |-> k, n |-> n], sendFails)
            /\ ksFailed' = (ksFailed \/ sendFails)
            /\ ksRef' = {e \in ksRef : ~(e.k = k /\ e.n = n)}
    /\ UNCHANGED ksRemote
    /\ UNCHANGED exceptKs

\* DeletePk(k): the body of DoubleRatchetKeyStore.DeletePk is empty
KS_DeletePk ==
    /\ \E impl \in KeyStores, k \in SessionKeys, sendFails \in BOOLEAN :
         LET call == [impl |-> impl, op |-> "DeletePk", k |-> k]
         IN /\ Calls(call)
            /\ IF impl = "client"
               THEN ~sendFails /\ ReturnsAtOnce(call, NoReply)
               ELSE Requests_(call, [op |-> "DeletePk", k |-> k], sendFails)
            /\ ksFailed' = (ksFailed \/ sendFails)
            /\ ksRef' = {e \in ksRef : e.k # k}
    /\ UNCHANGED ksRemote
    /\ UNCHANGED exceptKs

\* Count(k): DoubleRatchetKeyStore.Count is "return 9"
KS_Count ==
    /\ \E impl \in KeyStores, k \in SessionKeys, sendFails \in BOOLEAN :
         LET call == [impl |-> impl, op |-> "Count", k |-> k]
         IN /\ Calls(call)
            /\ IF impl = "client"
               THEN ~sendFails
                    /\ ReturnsAtOnce(call, [kind |-> "count", count |-> ClientCount])
               ELSE Requests_(call, [op |-> "Count", k |-> k], sendFails)
            /\ ksFailed' = (ksFailed \/ sendFails)
    /\ UNCHANGED << ksRemote, ksRef >>
    /\ UNCHANGED exceptKs

\* the remote store after it has served a request
RemoteAfter(store, request) ==
    CASE request.op = "Put" ->
           {e \in store : ~(e.k = request.k /\ e.n = request.n)}
              \cup {[k |-> request.k, n |-> request.n, key |-> request.key]}
      [] request.op = "DeleteMk" ->
           {e \in store : ~(e.k = request.k /\ e.n = request.n)}
      [] request.op = "DeletePk" -> {e \in store : e.k # request.k}
      [] OTHER -> store

\* the answer of the remote store to a request
RemoteAnswer(store, request) ==
    CASE request.op = "Get" ->
           LET found == {e \in store : e.k = request.k /\ e.n = request.n}
           IN IF found = {} THEN [kind |-> "remoteErr"]
              ELSE [kind |-> "payload", payload |-> (CHOOSE e \in found : TRUE).key]
      [] request.op = "Count" ->
           [kind |-> "count", count |-> Cardinality({e \in store : e.k = request.k})]
      [] OTHER -> [kind |-> "ok"]

\* the remote store serves the request and its answer arrives; the operation
\* returns
KS_Answer ==
    /\ ksPc = "waiting"
    /\ ksRemote' = RemoteAfter(ksRemote, ksSent)
    /\ ksReply' = RemoteAnswer(ksRemote, ksSent)
    /\ ksRet' = ResultOf(ksOp, ksReply')
    /\ ksPc' = "returned"
    /\ UNCHANGED << ksOp, ksSent, ksRef, ksFailed, ksCalls >>
    /\ UNCHANGED exceptKs

\* the answer is a remote error, or carries a payload that is not the stored
\* one; the operation returns
KS_AnswerBad ==
    /\ ksPc = "waiting"
    /\ \E reply \in {[kind |-> "remoteErr"]}
                      \cup {[kind |-> "payload", payload |-> p] : p \in Payloads} :
         /\ reply.kind = "payload" => ksSent.op = "Get"
         /\ ksReply' = reply
         /\ ksRet' = ResultOf(ksOp, reply)
    /\ ksFailed' = TRUE
    /\ ksPc' = "returned"
    /\ UNCHANGED << ksOp, ksSent, ksRemote, ksRef, ksCalls >>
    /\ UNCHANGED exceptKs

\* whether the wait for the response is bounded by a timeout:
\* s.api.request(&req, time.Second * 8) against resp := <-respCha
HasTimeout(impl) == impl = "api"

\* the timeout of s.api.request expires; the operation returns
KS_Timeout ==
    /\ ksPc = "waiting"
    /\ HasTimeout(ksOp.impl)
    /\ ksReply' = [kind |-> "timeout"]
    /\ ksRet' = ResultOf(ksOp, ksReply')
    /\ ksFailed' = TRUE
    /\ ksPc' = "returned"
    /\ UNCHANGED << ksOp, ksSent, ksRemote, ksRef, ksCalls >>
    /\ UNCHANGED exceptKs

\* the operations of a key store and its remote store
NextKeyStore ==
    \/ KS_Get
    \/ KS_Put
    \/ KS_DeleteMk
    \/ KS_DeletePk
    \/ KS_Count
    \/ KS_Answer
    \/ KS_AnswerBad
    \/ KS_Timeout

----------------------------------------------------------------------------
(* The message store: db.BoltChatMessageStorage                            *)
(*                                                                         *)
(* CreatedAt and the keys of a bucket are counted from 2147483647, the     *)
(* largest 32 bit signed integer: the value t stands for the timestamp     *)
(* 2147483647 + t.                                                         *)

Partners == {"alice"}

\* the registered statuses
statuses ==
    {StatusSent, StatusFailedToSend, StatusDelivered, StatusFailedToHandle,
     StatusPersisted}

\* m.DApp == nil
NoDApp == [present |-> FALSE, DAppPublicKey |-> 0]

\* the DApp messages a caller passes: the length of their public key
DApps == {[present |-> TRUE, DAppPublicKey |-> n] : n \in {PublicKeyLength, PublicKeyLength - 1}}

\* the zero value Message{} with the payload and the DApp message of a caller;
\* ID: 0 is the empty string; Message and Sender: the length in bytes
MessageOf(payload, dapp) ==
    [ID |-> 0, Version |-> 0, Status |-> 0, Received |-> FALSE, DApp |-> dapp,
     Message |-> payload, CreatedAt |-> 0, Sender |-> 0, DatabaseID |-> 0]

NoEvent == [none |-> TRUE]

NoBucket == [k \in {} |-> EmptyCipherText]

\* faulty variant: the largest 32 bit signed integer is accepted
NotBelowMaxInt32(createdAt) == ~(createdAt < 0)

\* m.CreatedAt <= 2147483647 does not hold
AboveMaxInt32(createdAt) == ~(createdAt <= 0)

\* ValidMessage: whether it returns nil
ValidMessage(m) ==
    /\ m.ID # 0
    /\ m.Version # 0
    /\ m.Status \in statuses
    /\ ~(~m.DApp.present /\ m.Message = 0)
    /\ m.DApp.present => m.DApp.DAppPublicKey = PublicKeyLength
    /\ AboveMaxInt32(m.CreatedAt)
    /\ ~(m.Sender # PublicKeyLength /\ ~m.DApp.present)

\* the loop of persistMessage that looks for a key that is not taken: every
\* round after the first one tries msg.CreatedAt + 1. A round that finds
\* msg.CreatedAt + 1 taken leaves the key as it is, and so does every round
\* after it until tried = MaxTried ends the loop: the rounds that change
\* nothing but the counter are skipped.
RECURSIVE createdAtMsgID(_, _, _, _)
createdAtMsgID(bucket, createdAt, key, tried) ==
    IF key \notin DOMAIN bucket \/ tried = MaxTried
    THEN key
    ELSE IF key = createdAt + 1
    THEN createdAtMsgID(bucket, createdAt, createdAt + 1, MaxTried)
    ELSE createdAtMsgID(bucket, createdAt, createdAt + 1, tried + 1)

\* partnerBucket.Put
BucketPut(bucket, key, value) ==
    [k \in DOMAIN bucket \cup {key} |-> IF k = key THEN value ELSE bucket[k]]

\* decRawMsg: unmarshal, decrypt and decode a record
decRawMsg(rawEncMsg) == AESDecrypt(rawEncMsg)

InitMs ==
    /\ msStore = [p \in Partners |-> NoBucket]
    /\ msOp = [op |-> "none"]
    /\ msRet = [err |-> FALSE, messages |-> << >>]
    /\ msEvent = NoEvent
    /\ msCalls = 0
    /\ msNow = 1
    /\ msNotified = << >>
    /\ msDelivered = << >>

\* an operation returns an error and has written nothing
ReturnsError(call, partner, msg) ==
    /\ msOp' = [op |-> call, partner |-> partner, msg |-> msg]
    /\ msRet' = [err |-> TRUE, messages |-> << >>]
    /\ msEvent' = NoEvent
    /\ msStore' = msStore
    /\ msCalls' = msCalls
    /\ msNotified' = msNotified

\* faulty variant: the loop over the listeners ends after the first one
OnCommitFirstOnly(listeners, event) ==
    [l \in DOMAIN listeners |->
        IF l = 1 THEN Append(listeners[l], event) ELSE listeners[l]]

\* the function given to tx.OnCommit: a goroutine is started for every
\* listener, with the event
OnCommit(listeners, event) ==
    [l \in DOMAIN listeners |-> Append(listeners[l], event)]

\* persistMessage(partner, msg): the message is validated; the record is
\* encrypted, which may fail, and put under its key; the commit hands the
\* event to the listeners
persistMessage(call, partner, msg) ==
    LET m == [msg EXCEPT !.Version = DAppMessageVersion]
        bucket == msStore[partner]
        key == createdAtMsgID(bucket, m.CreatedAt, m.CreatedAt, 0)
        stored == [m EXCEPT !.DatabaseID = key]
    IN IF ~ValidMessage(m)
       THEN ReturnsError(call, partner, m)
       ELSE \/ ReturnsError(call, partner, m)
            \/ /\ msOp' = [op |-> call, partner |-> partner, msg |-> m]
               /\ msStore' = [msStore EXCEPT
                                 ![partner] = BucketPut(bucket, key, AESEncrypt(stored))]
               /\ msEvent' = [Partner |-> partner, Message |-> stored,
                              DBMessageID |-> key]
               /\ msRet' = [err |-> FALSE, messages |-> << >>]
               /\ msCalls' = msCalls + 1
               /\ msNotified' =
                     OnCommit(msNotified, [Partner |-> partner, Message |-> stored,
                                           DBMessageID |-> key])

\* PersistMessageToSend(partner, msg): the identity key of the key manager is
\* the sender, time.Now() the timestamp
MS_PersistMessageToSend ==
    /\ msCalls < MaxPersists
    /\ \E partner \in Partners, payload \in {0, 1} :
         \* uuid.NewV4 or IdentityPublicKey fails, or the key has not 32 bytes
         \/ /\ ReturnsError("PersistMessageToSend", partner, MessageOf(payload, NoDApp))
            /\ msNow' = msNow
         \/ \E now \in msNow..MaxTime :
              /\ persistMessage("PersistMessageToSend", partner,
                                [MessageOf(payload, NoDApp) EXCEPT
                                    !.ID = msCalls + 1,
                                    !.Received = FALSE,
                                    !.Status = StatusPersisted,
                                    !.Sender = PublicKeyLength,
                                    !.CreatedAt = now])
              /\ msNow' = now
    /\ UNCHANGED msDelivered
    /\ UNCHANGED exceptMs

\* the messages a caller passes to PersistReceivedMessage: a chat message
\* with every CreatedAt, and with one of its fields left empty
ReceivedMessages(id) ==
    LET chat(createdAt) == [MessageOf(1, NoDApp) EXCEPT !.ID = id,
                                                       !.Sender = PublicKeyLength,
                                                       !.CreatedAt = createdAt]
    IN {chat(createdAt) : createdAt \in 0..MaxTime}
          \cup {[chat(MaxTime) EXCEPT !.ID = 0], [chat(MaxTime) EXCEPT !.Message = 0],
                [chat(MaxTime) EXCEPT !.Sender = 0]}

\* PersistReceivedMessage(partner, msg)
MS_PersistReceivedMessage ==
    /\ msCalls < MaxPersists
    /\ \E partner \in Partners, msg \in ReceivedMessages(msCalls + 1) :
         persistMessage("PersistReceivedMessage", partner,
                        [msg EXCEPT !.Status = StatusPersisted, !.Received = TRUE])
    /\ UNCHANGED msNow
    /\ UNCHANGED msDelivered
    /\ UNCHANGED exceptMs

\* PersistDAppMessage(partner, msg)
MS_PersistDAppMessage ==
    /\ msCalls < MaxPersists
    /\ \E partner \in Partners, dapp \in DApps, now \in msNow..MaxTime :
         /\ persistMessage("PersistDAppMessage", partner,
                           [MessageOf(0, dapp) EXCEPT !.ID = msCalls + 1,
                                                      !.Received = FALSE,
                                                      !.Status = StatusPersisted,
                                                      !.CreatedAt = now])
         /\ msNow' = now
    /\ UNCHANGED msDelivered
    /\ UNCHANGED exceptMs

Greatest(keys) == CHOOSE k \in keys : \A j \in keys : j <= k

Least(keys) == CHOOSE k \in keys : \A j \in keys : k <= j

\* the loop over cursor.Prev() of Messages
RECURSIVE PrevMessages(_, _, _)
PrevMessages(bucket, key, currentAmount) ==
    IF currentAmount = 0
    THEN << >>
    ELSE LET before == {k \in DOMAIN bucket : k < key}
         IN IF before = {}
            THEN << >>
            ELSE << decRawMsg(bucket[Greatest(before)]) >>
                    \o PrevMessages(bucket, Greatest(before), currentAmount - 1)

\* faulty variant: the messages are returned in the order of the scan
Unsorted(messages) == messages

\* sort.Slice(messages, ...): ascending by DatabaseID
RECURSIVE SortByDatabaseID(_)
SortByDatabaseID(messages) ==
    IF messages = << >>
    THEN << >>
    ELSE LET i == CHOOSE i \in 1..Len(messages) :
                     \A j \in 1..Len(messages) :
                        messages[i].DatabaseID <= messages[j].DatabaseID
             rest == [j \in 1..(Len(messages) - 1) |->
                         IF j < i THEN messages[j] ELSE messages[j + 1]]
         IN << messages[i] >> \o SortByDatabaseID(rest)

\* Messages(partner, start, amount): what it returns
Messages(partner, start, amount) ==
    LET bucket == msStore[partner]
        from == {k \in DOMAIN bucket : start <= k}
    IN IF amount < 1 THEN [err |-> TRUE, messages |-> << >>]
       ELSE IF bucket = NoBucket THEN [err |-> FALSE, messages |-> << >>]
       ELSE IF start # 0 /\ from = {} THEN [err |-> TRUE, messages |-> << >>]
       ELSE LET key == IF start = 0 THEN Greatest(DOMAIN bucket) ELSE Least(from)
            IN [err |-> FALSE,
                messages |-> SortByDatabaseID(<< decRawMsg(bucket[key]) >>
                                  \o PrevMessages(bucket, key, amount - 1))]

MS_Messages ==
    /\ \E partner \in Partners, start \in 0..MaxTime, amount \in 0..MaxAmount :
         /\ msOp' = [op |-> "Messages", partner |-> partner, start |-> start,
                     amount |-> amount]
         /\ msRet' = Messages(partner, start, amount)
    /\ msEvent' = NoEvent
    /\ UNCHANGED << msStore, msCalls, msNow, msNotified, msDelivered >>
    /\ UNCHANGED exceptMs

\* AddListener(fn)
MS_AddListener ==
    /\ Len(msNotified) < MaxListeners
    /\ msNotified' = Append(msNotified, << >>)
    /\ msDelivered' = Append(msDelivered, 0)
    /\ UNCHANGED << msStore, msOp, msRet, msEvent, msCalls, msNow >>
    /\ UNCHANGED exceptMs

\* one of the goroutines started for a listener runs: go listener(event).
\* The goroutines of a listener touch nothing of the store, so that only
\* their number is kept.
MS_Listener(l) ==
    /\ msDelivered[l] < Len(msNotified[l])
    /\ msDelivered' = [msDelivered EXCEPT ![l] = @ + 1]
    /\ UNCHANGED << msStore, msOp, msRet, msEvent, msCalls, msNow, msNotified >>
    /\ UNCHANGED exceptMs

MS_Listeners == \E l \in DOMAIN msNotified : MS_Listener(l)

\* the listeners of the message store, over the messages to send
NextListeners ==
    \/ MS_AddListener
    \/ MS_PersistMessageToSend
    \/ MS_Listeners

\* the operations of the message store
NextMessageStore ==
    \/ MS_PersistMessageToSend
    \/ MS_PersistReceivedMessage
    \/ MS_PersistDAppMessage
    \/ MS_Messages

----------------------------------------------------------------------------
(* db.BoltSharedSecretStorage: Put, Accept, Get, SecretForChatInitMsg *)

\* the bound of the secrets put into the store
MaxSecrets == 2

\* SharedSecret.CreatedAt of the secrets put into the store: a secret put later
\* is younger, as old or older than one put before
CreatedAts == {1, 2}

\* the partners of the shared secrets: the bucket of one partner is not read
\* for another
SecretPartners == {"alice", "bob"}

\* SharedSecret.BaseID of the n-th secret: fresh random bytes, 32 of them
BaseIDOf(n) == [id |-> n, len |-> KeyLength]

\* a base id that is not 32 bytes long
ShortBaseID == [id |-> 0, len |-> KeyLength - 1]

\* SharedSecret as the tests build it: X3dhSS, ID, IDInitParams, BaseID,
\* CreatedAt; Accepted is false in a new secret
SharedSecret(n, baseID, createdAt) ==
    [X3dhSS       |-> n,
     ID           |-> n,
     IDInitParams |-> n,
     BaseID       |-> baseID,
     CreatedAt    |-> createdAt,
     Accepted     |-> FALSE]

\* Put: the secret joins the bucket of the partner
PutSecret(store, partner, secret) ==
    [store EXCEPT ![partner] = @ \cup {secret}]

\* Get: the secret of the partner with the base id, nil when there is none
Get(store, partner, baseID) ==
    IF \E x \in store[partner] : x.BaseID = baseID
    THEN CHOOSE x \in store[partner] : x.BaseID = baseID
    ELSE NoSecret

\* a faulty variant of Accept: the flag is flipped
AcceptFlips(store, partner, secret) ==
    [store EXCEPT ![partner] =
        {IF x.BaseID = secret.BaseID THEN [x EXCEPT !.Accepted = ~@] ELSE x
           : x \in @}]

\* Accept: the stored secret with the base id of the given one is marked as
\* accepted
Accept(store, partner, secret) ==
    [store EXCEPT ![partner] =
        {IF x.BaseID = secret.BaseID THEN [x EXCEPT !.Accepted = TRUE] ELSE x
           : x \in @}]

\* a faulty variant of SecretForChatInitMsg: the youngest secret of the partner
SecretForChatInitMsgYoungest(store, partner, initParamsID) ==
    IF \E x \in store[partner] : x.IDInitParams = initParamsID
    THEN CHOOSE x \in store[partner] :
            \A y \in store[partner] : y.CreatedAt <= x.CreatedAt
    ELSE NoSecret

\* SecretForChatInitMsg: the secret of the partner that was negotiated with
\* the parameters of the id, nil when there is none
SecretForChatInitMsg(store, partner, initParamsID) ==
    IF \E x \in store[partner] : x.IDInitParams = initParamsID
    THEN CHOOSE x \in store[partner] : x.IDInitParams = initParamsID
    ELSE NoSecret

InitSss ==
    /\ sssStore = [p \in SecretPartners |-> {}]
    /\ sssOp = [op |-> "none"]
    /\ sssRet = [err |-> FALSE, secret |-> NoSecret]
    /\ sssCalls = 0

\* Put(partner, secret): a base id that is not 32 bytes long is refused
SSS_Put ==
    /\ sssCalls < MaxSecrets
    /\ \E partner \in SecretPartners, createdAt \in CreatedAts,
          baseID \in {BaseIDOf(sssCalls + 1), ShortBaseID} :
         LET secret == SharedSecret(sssCalls + 1, baseID, createdAt) IN
         /\ sssOp' = [op |-> "Put", partner |-> partner, secret |-> secret]
         /\ sssCalls' = sssCalls + 1
         /\ IF baseID.len # KeyLength
            THEN /\ sssRet' = [err |-> TRUE, secret |-> NoSecret]
                 /\ UNCHANGED sssStore
            ELSE /\ sssRet' = [err |-> FALSE, secret |-> NoSecret]
                 /\ sssStore' = PutSecret(sssStore, partner, secret)
    /\ UNCHANGED exceptSss

\* Accept(partner, secret), with a secret read from the store before
SSS_Accept ==
    /\ \E partner \in SecretPartners :
         \E secret \in sssStore[partner] :
           /\ sssOp' = [op |-> "Accept", partner |-> partner, secret |-> secret]
           /\ sssRet' = [err |-> FALSE, secret |-> NoSecret]
           /\ sssStore' = Accept(sssStore, partner, secret)
    /\ UNCHANGED sssCalls
    /\ UNCHANGED exceptSss

\* Get(partner, baseID)
SSS_Get ==
    /\ \E partner \in SecretPartners, n \in 1..MaxSecrets :
         /\ sssOp' = [op |-> "Get", partner |-> partner,
                      secret |-> SharedSecret(n, BaseIDOf(n), 0)]
         /\ sssRet' = [err |-> FALSE, secret |-> Get(sssStore, partner, BaseIDOf(n))]
    /\ UNCHANGED << sssStore, sssCalls >>
    /\ UNCHANGED exceptSss

\* SecretForChatInitMsg(partner, id of the negotiation parameters)
SSS_SecretForChatInitMsg ==
    /\ \E partner \in SecretPartners, n \in 1..MaxSecrets :
         /\ sssOp' = [op |-> "SecretForChatInitMsg", partner |-> partner,
                      secret |-> SharedSecret(n, BaseIDOf(n), 0)]
         /\ sssRet' = [err |-> FALSE,
                       secret |-> SecretForChatInitMsg(sssStore, partner, n)]
    /\ UNCHANGED << sssStore, sssCalls >>
    /\ UNCHANGED exceptSss

NextSharedSecrets ==
    \/ SSS_Put
    \/ SSS_Accept
    \/ SSS_Get
    \/ SSS_SecretForChatInitMsg

----------------------------------------------------------------------------
(* Backend.lock: the callback holds it for the whole turn, AddRequestHandler *)
(* and the send loop take it; sync.Mutex is not reentrant                   *)

\* number of handlers in the chain
MaxChain == 2

\* the turns of the callback the transport may run at a time
Turns == {"turn1", "turn2"}

\* the goroutines: a caller of the Backend outside the callback, the send
\* loop, the turns of the callback
Threads == {"app", "sendLoop"} \cup Turns

\* what a RequestHandler does with the Backend while it runs: nothing, a call
\* of AddRequestHandler, or a request whose response it waits for
HandlerKinds == {"returns", "AddRequestHandler", "Request"}

InitLock ==
    /\ lkHolder = "free"
    /\ lkPc = [th \in Threads |-> [pc |-> "idle", i |-> 0, to |-> "none"]]
    /\ lkChain = << "returns" >>
    /\ lkWaiting = {}
    /\ lkDelivered = {}

\* where a goroutine goes on after a call into the Backend returned: the
\* callback with the next handler of the chain, the caller outside is done
AfterCall(th) ==
    IF th \in Turns THEN [lkPc[th] EXCEPT !.pc = "handlers", !.i = @ + 1]
    ELSE [pc |-> "idle", i |-> 0, to |-> "none"]

\* Backend.AddRequestHandler called by th: Lock, append, Unlock
LK_AddRequestHandlerBy(th) ==
    /\ lkPc[th].pc = "inAddRequestHandler"
    /\ lkHolder = "free"
    /\ Len(lkChain) < MaxChain
    /\ \E h \in HandlerKinds : lkChain' = Append(lkChain, h)
    /\ lkPc' = [lkPc EXCEPT ![th] = AfterCall(th)]
    /\ UNCHANGED << lkHolder, lkWaiting, lkDelivered >>
    /\ UNCHANGED exceptLock

LK_AddRequestHandler == \E th \in Threads : LK_AddRequestHandlerBy(th)

\* th reads the response of its request from its response channel
LK_ReceiveBy(th) ==
    /\ lkPc[th].pc = "awaitsResponse"
    /\ th \in lkDelivered
    /\ lkDelivered' = lkDelivered \ {th}
    /\ lkPc' = [lkPc EXCEPT ![th] = AfterCall(th)]
    /\ UNCHANGED << lkHolder, lkChain, lkWaiting >>
    /\ UNCHANGED exceptLock

LK_Receive == \E th \in Threads : LK_ReceiveBy(th)

\* the caller outside the callback calls AddRequestHandler or sends a request
\* and waits for its response
LK_AppCalls ==
    /\ lkPc["app"].pc = "idle"
    /\ \/ /\ lkPc' = [lkPc EXCEPT !["app"].pc = "inAddRequestHandler"]
          /\ UNCHANGED lkWaiting
       \/ /\ lkPc' = [lkPc EXCEPT !["app"].pc = "awaitsResponse"]
          /\ lkWaiting' = lkWaiting \cup {"app"}
    /\ UNCHANGED << lkHolder, lkChain, lkDelivered >>
    /\ UNCHANGED exceptLock

\* the callback is called with an envelope: b.lock.Lock(), defer Unlock; the
\* envelope carries a request, or the response to a request that is waited for
LK_TurnBegin(t) ==
    /\ lkPc[t].pc = "idle"
    /\ lkHolder = "free"
    /\ lkHolder' = t
    /\ \/ lkPc' = [lkPc EXCEPT ![t] = [pc |-> "handlers", i |-> 1, to |-> "none"]]
       \/ \E th \in lkWaiting :
             lkPc' = [lkPc EXCEPT ![t] = [pc |-> "response", i |-> 0, to |-> th]]
    /\ UNCHANGED << lkChain, lkWaiting, lkDelivered >>
    /\ UNCHANGED exceptLock

\* the request branch calls the next handler of the chain, the lock held
LK_Handler(t) ==
    /\ lkPc[t].pc = "handlers"
    /\ lkPc[t].i <= Len(lkChain)
    /\ LET h == lkChain[lkPc[t].i] IN
       /\ lkPc' = [lkPc EXCEPT ![t] =
             IF h = "returns" THEN [@ EXCEPT !.i = @ + 1]
             ELSE IF h = "AddRequestHandler" THEN [@ EXCEPT !.pc = "inAddRequestHandler"]
             ELSE [@ EXCEPT !.pc = "awaitsResponse"]]
       /\ lkWaiting' = IF h = "Request" THEN lkWaiting \cup {t} ELSE lkWaiting
    /\ UNCHANGED << lkHolder, lkChain, lkDelivered >>
    /\ UNCHANGED exceptLock

\* the response branch cuts the entry and writes to the response channel; the
\* callback returns and the lock is released
LK_Deliver(t) ==
    /\ lkPc[t].pc = "response"
    /\ lkWaiting' = lkWaiting \ {lkPc[t].to}
    /\ lkDelivered' = IF lkPc[t].to \in lkWaiting
                      THEN lkDelivered \cup {lkPc[t].to} ELSE lkDelivered
    /\ lkPc' = [lkPc EXCEPT ![t] = [pc |-> "idle", i |-> 0, to |-> "none"]]
    /\ lkHolder' = "free"
    /\ UNCHANGED lkChain
    /\ UNCHANGED exceptLock

\* the chain is through: the callback returns and the lock is released
LK_TurnEnd(t) ==
    /\ lkPc[t].pc = "handlers"
    /\ lkPc[t].i > Len(lkChain)
    /\ lkPc' = [lkPc EXCEPT ![t] = [pc |-> "idle", i |-> 0, to |-> "none"]]
    /\ lkHolder' = "free"
    /\ UNCHANGED << lkChain, lkWaiting, lkDelivered >>
    /\ UNCHANGED exceptLock

\* the steps of the goroutine of turn t
LK_TurnStep(t) ==
    \/ LK_Handler(t)
    \/ LK_Deliver(t)
    \/ LK_TurnEnd(t)
    \/ LK_AddRequestHandlerBy(t)
    \/ LK_ReceiveBy(t)

LK_Begin == \E t \in Turns : LK_TurnBegin(t)

LK_Handlers == \E t \in Turns : LK_Handler(t)

LK_Delivers == \E t \in Turns : LK_Deliver(t)

LK_Ends == \E t \in Turns : LK_TurnEnd(t)

\* the send loop takes the lock to read the authenticated flag
LK_SendLoopLock ==
    /\ lkPc["sendLoop"].pc = "idle"
    /\ lkHolder = "free"
    /\ lkHolder' = "sendLoop"
    /\ lkPc' = [lkPc EXCEPT !["sendLoop"].pc = "locked"]
    /\ UNCHANGED << lkChain, lkWaiting, lkDelivered >>
    /\ UNCHANGED exceptLock

\* the send loop has read the flag and releases the lock
LK_SendLoopUnlock ==
    /\ lkPc["sendLoop"].pc = "locked"
    /\ lkHolder' = "free"
    /\ lkPc' = [lkPc EXCEPT !["sendLoop"].pc = "idle"]
    /\ UNCHANGED << lkChain, lkWaiting, lkDelivered >>
    /\ UNCHANGED exceptLock

NextLock ==
    \/ LK_AppCalls
    \/ LK_AddRequestHandler
    \/ LK_Receive
    \/ LK_Begin
    \/ LK_Handlers
    \/ LK_Delivers
    \/ LK_Ends
    \/ LK_SendLoopLock
    \/ LK_SendLoopUnlock

----------------------------------------------------------------------------
(* device_api.Api: Send registers a response channel, Receive resolves it *)

\* the ids of the calls
CallIDs == 1..MaxCalls

\* State.Add: the response channel is registered under a new id
StateAdd(state, id) == state \cup {id}

\* State.Cut: whether the id has a response channel
StateHas(state, id) == id \in state

\* State.Cut: the state without the entry
StateCut(state, id) == state \ {id}

\* the data handed to Receive: a raw response with a payload, one with an
\* error, one that ValidateStruct refuses, a string that is no JSON
ReceivedData == {"payload", "error", "invalid", "noJSON"}

NoReceive == [id |-> 0, data |-> "none", err |-> FALSE]

InitDa ==
    /\ daNextID = 0
    /\ daState = {}
    /\ daChan = [id \in CallIDs |-> << >>]
    /\ daRecv = NoReceive

\* Api.Send of a valid call: respChan := make(chan Response, 1), state.Add,
\* the call is sent to the device in a goroutine
DA_Send ==
    /\ daNextID < MaxCalls
    /\ daNextID' = daNextID + 1
    /\ daState' = StateAdd(daState, daNextID + 1)
    /\ UNCHANGED << daChan, daRecv >>
    /\ UNCHANGED exceptDa

\* Api.Receive(id, data) up to the write to the response channel
DA_Receive ==
    /\ \E id \in 0..MaxCalls, data \in ReceivedData :
         IF ~StateHas(daState, id)
         THEN /\ daRecv' = [id |-> id, data |-> data, err |-> TRUE]
              /\ UNCHANGED << daState, daChan >>
         ELSE /\ daState' = StateCut(daState, id)
              /\ IF data \in {"noJSON", "invalid"}
                 THEN /\ daRecv' = [id |-> id, data |-> data, err |-> TRUE]
                      /\ UNCHANGED daChan
                 ELSE /\ daRecv' = [id |-> id, data |-> data, err |-> FALSE]
                      /\ daChan' = [daChan EXCEPT ![id] = Append(@, data)]
    /\ UNCHANGED daNextID
    /\ UNCHANGED exceptDa

NextDeviceApi ==
    \/ DA_Send
    \/ DA_Receive

----------------------------------------------------------------------------
(* package panthalassa: start, Stop and the exported operations *)

\* number of calls of the exported operations
MaxLifecycleCalls == 4

\* var panthalassaInstance *Panthalassa: nil
NoInstance == [nil |-> TRUE]

\* the step of Start and start that returns an error ("none": they succeed)
StartFailures == {"none", "config", "keyManager", "p2p", "db", "backend", "chat",
                  "dAppRegistry"}

\* the exported operations that read the instance
ExportedOperations == {"EthPrivateKey", "EthAddress", "SendResponse",
                       "ExportAccountStore", "IdentityPublicKey", "GetMnemonic"}

\* the call before, for the record of a call
Outcome(call) ==
    IF call.op = "Stop" /\ call.had
    THEN IF call.err THEN "Stop failed" ELSE "Stop"
    ELSE "other"

InitInstance ==
    /\ panthalassaInstance = NoInstance
    /\ piOp = [op |-> "none", n |-> 0, had |-> FALSE, err |-> FALSE, after |-> "none"]
    /\ piCalls = 0

\* Start: the configuration and the key manager are opened, then start
\* refuses when an instance exists, builds the parts and sets the instance
PI_Start ==
    /\ piCalls < MaxLifecycleCalls
    /\ piCalls' = piCalls + 1
    /\ \E f \in StartFailures :
         LET refused == f # "none" \/ panthalassaInstance # NoInstance IN
         /\ piOp' = [op |-> "start", n |-> piCalls + 1,
                     had |-> panthalassaInstance # NoInstance, err |-> refused,
                     after |-> Outcome(piOp)]
         /\ panthalassaInstance' =
               IF refused THEN panthalassaInstance ELSE [id |-> piCalls + 1]
    /\ UNCHANGED exceptInstance

\* faulty variant: the instance stays when its Stop returns an error
PI_StopKeepsOnError ==
    /\ piCalls < MaxLifecycleCalls
    /\ piCalls' = piCalls + 1
    /\ IF panthalassaInstance = NoInstance
       THEN /\ piOp' = [op |-> "Stop", n |-> piCalls + 1, had |-> FALSE, err |-> TRUE,
                     after |-> Outcome(piOp)]
            /\ UNCHANGED panthalassaInstance
       ELSE \E err \in BOOLEAN :
              /\ piOp' = [op |-> "Stop", n |-> piCalls + 1, had |-> TRUE, err |-> err,
                     after |-> Outcome(piOp)]
              /\ panthalassaInstance' = IF err THEN panthalassaInstance ELSE NoInstance
    /\ UNCHANGED exceptInstance

\* Stop: an error without an instance; else panthalassaInstance.Stop(), whose
\* error is returned, and the singleton is reset
PI_Stop ==
    /\ piCalls < MaxLifecycleCalls
    /\ piCalls' = piCalls + 1
    /\ IF panthalassaInstance = NoInstance
       THEN /\ piOp' = [op |-> "Stop", n |-> piCalls + 1, had |-> FALSE, err |-> TRUE,
                     after |-> Outcome(piOp)]
            /\ UNCHANGED panthalassaInstance
       ELSE \E err \in BOOLEAN :
              /\ piOp' = [op |-> "Stop", n |-> piCalls + 1, had |-> TRUE, err |-> err,
                     after |-> Outcome(piOp)]
              /\ panthalassaInstance' = NoInstance
    /\ UNCHANGED exceptInstance

\* EthPrivateKey .. GetMnemonic: an error without an instance; else the call
\* is handed to the instance, which may return an error of its own
PI_Call ==
    /\ piCalls < MaxLifecycleCalls
    /\ piCalls' = piCalls + 1
    /\ \E op \in ExportedOperations, err \in BOOLEAN :
         /\ panthalassaInstance = NoInstance => err
         /\ op = "GetMnemonic" /\ panthalassaInstance # NoInstance => ~err
         /\ piOp' = [op |-> op, n |-> piCalls + 1,
                     had |-> panthalassaInstance # NoInstance, err |-> err,
                     after |-> Outcome(piOp)]
    /\ UNCHANGED panthalassaInstance
    /\ UNCHANGED exceptInstance

NextLifecycle ==
    \/ PI_Start
    \/ PI_Stop
    \/ PI_Call

----------------------------------------------------------------------------
(* Specifications *)

Init ==
    /\ InitBackend /\ InitChat /\ InitRecv /\ InitPreKeys /\ InitKa /\ InitKs
    /\ InitMs
    /\ InitSss
    /\ InitInbound
    /\ InitLock
    /\ InitDa
    /\ InitInstance

\* the transport: Send, the send loop, the transmissions, Close, and the
\* callback on the response envelopes (the other envelopes leave the state
\* of the transport as it is, see OnRequest, OnNeither and OnMessageOf)
Next ==
    \/ Send
    \/ OnInboundResponse
    \/ SendLoopWaitAuth
    \/ SendLoopClosed
    \/ SendLoopTake
    \/ TransmitOk
    \/ TransmitError
    \/ Close

Spec == Init /\ [][Next]_vars

\* the goroutines of the transport are scheduled
SpecFair ==
    /\ Spec
    /\ WF_vars(SendLoopWaitAuth)
    /\ WF_vars(SendLoopClosed)
    /\ WF_vars(SendLoopTake)
    /\ WF_vars(TransmitOk \/ TransmitError)

\* the outgoing requests of an open transport: Send, the send loop, the
\* transmissions and the callback on the response envelopes
NextOutgoing ==
    \/ Send
    \/ OnInboundResponse
    \/ SendLoopWaitAuth
    \/ SendLoopTake
    \/ TransmitOk
    \/ TransmitError

SpecOutgoing == Init /\ [][NextOutgoing]_vars

\* the transport with the envelope of every turn of the callback on record
NextAuthFlag ==
    \/ Send
    \/ OnMessage
    \/ SendLoopWaitAuth

SpecAuthFlag == Init /\ [][NextAuthFlag]_vars

\* the goroutines around Backend.lock
SpecLock == Init /\ [][NextLock]_vars

\* the calls of the device api and their responses
SpecDeviceApi == Init /\ [][NextDeviceApi]_vars

\* the calls of the exported operations, one after the other
SpecLifecycle == Init /\ [][NextLifecycle]_vars

\* the callback on the request envelopes, over every handler chain
NextDispatch ==
    \/ AddRequestHandler
    \/ OnInboundRequest

SpecDispatch == Init /\ [][NextDispatch]_vars

\* the callback on the envelopes that are no request, over every handler
\* chain and every content of the correlation table
NextEnvelope ==
    \/ AddRequestHandler
    \/ Send
    \/ OnInboundResponse
    \/ OnInboundNeither
    \/ OnInboundBoth

SpecEnvelope == Init /\ [][NextEnvelope]_vars

SpecSendMessage == Init /\ [][NextSendMessage]_vars

\* SendMessage over a shared secret store that racing flows put secrets into
NextSecretStore ==
    \/ NextSendMessage
    \/ RacingPut

SpecSecretStore == Init /\ [][NextSecretStore]_vars

SpecReceive == Init /\ [][NextReceive]_vars

SpecPreKeys == Init /\ [][PK_Handle]_vars

SpecKeyAgreement == Init /\ [][NextKeyAgreement]_vars

SpecKeyStore == Init /\ [][NextKeyStore]_vars

\* the timer of a bounded wait fires; no answer of the remote store is
\* guaranteed
SpecKeyStoreFair == SpecKeyStore /\ WF_vars(KS_Timeout)

SpecMessageStore == Init /\ [][NextMessageStore]_vars

SpecListeners == Init /\ [][NextListeners]_vars

\* the goroutines of the listeners are scheduled: each of them runs once, so
\* that all of them run when one of them runs as long as there is one
SpecListenersFair == SpecListeners /\ WF_vars(MS_Listeners)

\* the shared secret store alone
SpecSharedSecrets == Init /\ [][NextSharedSecrets]_vars

----------------------------------------------------------------------------
(* Properties of the backend transport *)

Range(seq) == {seq[i] : i \in 1..Len(seq)}

\* C1: for an inbound envelope carrying a request, the handlers are invoked
\* in registration order, the chain stops at the first handler that returns
\* a response or an error (every handler invoked before the last one
\* returned nil), and at most one envelope is sent back for the RequestID.
C1_ChainStopsAtFirstResult ==
    dispatch.kind = "request" =>
        /\ Len(dispatch.invoked) <= Len(requestHandler)
        /\ \A i \in 1..Len(dispatch.invoked) :
              /\ dispatch.invoked[i].h = requestHandler[i]
              /\ i < Len(dispatch.invoked) => dispatch.invoked[i].r = "nil"
        /\ Len(dispatch.sent) <= 1

\* C2: a request taken from the outgoing queue whose transmission has failed
\* has exactly one outcome on its response channel, never zero and never
\* two, whatever responses arrive (stated for the requests whose first
\* outcome is the transport error: nothing was delivered before the failure).
C2_ExactlyOneOutcome ==
    \A id \in failedTx :
        /\ Len(respChan[id]) >= 1
        /\ respChan[id][1].kind = "transportErr" => Len(respChan[id]) = 1

\* C3: while the authenticated flag is false no request has been taken from
\* the outgoing queue, none is being transmitted and none is on the wire.
C3_AuthGating ==
    ~authenticated =>
        /\ onWire = {}
        /\ transmitting = {}
        /\ Len(outReqQueue) = nextReqID
        /\ loopPc = "auth"

\* C3 witness: requests wait in the queue, unauthenticated, after a response
\* without the authentication marker has been dispatched
C3_Witness ==
    /\ ~authenticated
    /\ Len(outReqQueue) >= 2
    /\ dispatch.kind = "response"
    /\ ~dispatch.err

\* C4: every outcome on the response channel of a request comes from an
\* envelope whose RequestID is the id of that request, and a response that
\* is matched is delivered to the channel of the request with its RequestID
\* and to no other channel.
C4_Correlation ==
    /\ [](\A id \in 1..MaxRequests :
            \A k \in 1..Len(respChan[id]) : respChan[id][k].id = id)
    /\ [][(dispatch'.kind = "response" /\ ~dispatch'.err) =>
            /\ dispatch'.id \in 1..MaxRequests
            /\ \E kind \in {"resp", "remoteErr"} :
                 respChan' = [respChan EXCEPT ![dispatch'.id] =
                                 Append(@, [kind |-> kind, id |-> dispatch'.id])]]_vars

\* C4 witness: two requests are on the wire, the response to the second was
\* dispatched before the response to the first, each on its own channel
C4_Witness ==
    /\ {1, 2} \subseteq onWire
    /\ respChan[1] = << [kind |-> "resp", id |-> 1] >>
    /\ respChan[2] = << [kind |-> "resp", id |-> 2] >>
    /\ dispatch.kind = "response"
    /\ dispatch.id = 1

\* C5: after a transport error has been delivered to the caller the
\* correlation table no longer holds the RequestID.
C5_EntryCutOnTransportError ==
    \A id \in failedTx :
        (respChan[id] # << >> /\ respChan[id][Len(respChan[id])].kind = "transportErr")
            => id \notin stack

\* C6: an inbound response whose RequestID has no entry in the correlation
\* table makes the turn return an error, delivers nothing and leaves the
\* authenticated flag and the table as they are; a response whose RequestID
\* has an entry removes it, so the entry resolves no second response.
C6_UnknownRequestID ==
    [][dispatch'.kind = "response" =>
          IF dispatch'.id \in stack
          THEN ~dispatch'.err /\ dispatch'.id \notin stack'
          ELSE /\ dispatch'.err
               /\ respChan' = respChan
               /\ authenticated' = authenticated
               /\ stack' = stack]_vars

\* C6 witness: a response for a RequestID that an earlier response resolved
C6_Witness ==
    /\ dispatch.kind = "response"
    /\ dispatch.err
    /\ dispatch.id \in 1..MaxRequests
    /\ dispatch.id \notin stack
    /\ \E k \in 1..Len(respChan[dispatch.id]) : respChan[dispatch.id][k].kind = "resp"

\* C7: an envelope with a request and a response is rejected with an error;
\* no handler is invoked, no entry is cut, nothing is delivered or sent and
\* the authenticated flag is unchanged.
C7_BothRejected ==
    [][dispatch'.kind = "both" =>
          /\ dispatch'.err
          /\ dispatch'.invoked = << >>
          /\ dispatch'.sent = << >>
          /\ stack' = stack
          /\ respChan' = respChan
          /\ authenticated' = authenticated
          /\ onWire' = onWire]_vars

\* C7 witness: such an envelope was dispatched while its RequestID had an
\* entry and two handlers were registered
C7_Witness ==
    /\ dispatch.kind = "both"
    /\ dispatch.id \in stack
    /\ Len(requestHandler) >= 2

\* C8 as claimed: an envelope with neither a request nor a response makes the
\* turn fail with an error.
C8_NeitherFails ==
    dispatch.kind = "neither" => dispatch.err

\* C8 as amended: an envelope with neither a request nor a response is
\* dropped: no handler is invoked, no entry is cut, nothing is delivered or
\* sent, the authenticated flag is unchanged, and the turn returns no error.
C8_NeitherDropped ==
    [][dispatch'.kind = "neither" =>
          /\ ~dispatch'.err
          /\ dispatch'.invoked = << >>
          /\ dispatch'.sent = << >>
          /\ stack' = stack
          /\ respChan' = respChan
          /\ authenticated' = authenticated]_vars

\* C8 witness: such an envelope was dispatched while its RequestID had an entry
C8_Witness ==
    /\ dispatch.kind = "neither"
    /\ dispatch.id \in stack
    /\ Len(requestHandler) >= 2

\* C9: after Close the send loop eventually terminates.
C9_CloseStopsSendLoop ==
    transportClosed ~> (loopPc = "done")

----------------------------------------------------------------------------
(* Properties of SendMessage *)

\* C10: whenever SendMessage returns an error, a FailedToSend status write
\* was attempted before the return.
C10_FailedToSendBeforeError ==
    smRet = "err" => "FailedToSend" \in Range(statusLog)

\* C11: after SendMessage has returned, the message store reports the
\* message, persisted with PersistMessageToSend, with status Sent when the
\* call returned success and with status FailedToSend when it returned an
\* error; the Sent write comes only after the backend accepted the submission.
C11_StatusAfterSend ==
    /\ smRet = "nil" => msgStatus = "Sent"
    /\ smRet = "err" => msgStatus = "FailedToSend"
    /\ "Sent" \in Range(statusLog) => Len(submitted) >= 1

\* the positions of SendMessage at which the signed pre key that
\* fetchSignedPreKey returned is used: the session, the encryption, the
\* submission
UsesSignedPreKey ==
    {"AttachBaseID", "NewSession", "Marshal", "IdentityPublicKey", "DecodeSender",
     "ValidateKeys", "ChatIdKeyPair", "SignChatIDKey", "Submit", "UpdateSent"}

\* C12: SendMessage never encrypts or submits with a signed pre key of the
\* recipient whose signature did not verify: whether the key was cached,
\* fetched because absent or fetched again because expired, a key with an
\* invalid signature ends the call with an error and nothing is submitted.
C12_InvalidSignedPreKeyRefused ==
    /\ [](smPc \in UsesSignedPreKey =>
             preKeyStore.present /\ preKeyStore.validSignature)
    /\ [][(/\ smPc \in {"FetchSignedPreKey", "FetchSignedPreKeyExpired"}
           /\ ~preKeyStore.validSignature
           /\ smPc' # smPc)
            => /\ smRet' = "err"
               /\ smPc' = "idle"
               /\ submitted' = submitted]_vars
    /\ [][submitted' # submitted => preKeyStore.validSignature]_vars

\* C12 witness: the second call found the cached key of the first call, whose
\* signature does not verify, and returned an error with nothing submitted
C12_Witness ==
    /\ sendCount = 2
    /\ smPc = "idle"
    /\ smRet = "err"
    /\ preKeyStore.present
    /\ ~preKeyStore.validSignature
    /\ statusLog = << "FailedToSend", "FailedToSend" >>
    /\ submitted = << >>

\* the handshake fields a submitted message carries for the secret it was
\* sent with
HandshakeFieldsOf(secret) ==
    [baseID          |-> TRUE,
     oneTimePreKey   |-> (secret.usedOneTimePreKey # "nil"),
     signedPreKey    |-> TRUE,
     senderChatIDKey |-> TRUE,
     ephemeralKey    |-> TRUE]

\* C13: the submitted message carries the handshake fields (base id and
\* creation time, signed pre key, ephemeral key and signature, sender chat
\* identity key and signature, and the one time pre key when one was used)
\* if and only if the shared secret selected for the send is not accepted;
\* with an accepted secret none of the fields is set.
C13_HandshakePiggyBack ==
    [][submitted' # submitted =>
          /\ submitted' = Append(submitted, msgFields)
          /\ msgFields = IF ss.accepted THEN NoFields ELSE HandshakeFieldsOf(ss)]_vars

\* C13 witness: the first message was sent with the fresh secret and carries
\* the fields; the partner accepted the secret, and the second message
\* carries none
C13_Witness ==
    /\ Len(submitted) = 2
    /\ submitted[1].baseID /\ submitted[1].signedPreKey /\ submitted[1].ephemeralKey
    /\ submitted[1].senderChatIDKey /\ submitted[1].oneTimePreKey
    /\ submitted[2] = NoFields
    /\ ss.accepted

\* the positions of SendMessage inside the "if !exist" block
EstablishesSession ==
    {"FetchPreKeyBundle", "CalculateSecret", "SignEphemeralKey", "RandBaseID",
     "PutSecret"}

\* C14: the pre key bundle is fetched, the key agreement is run and a new
\* shared secret is persisted if and only if HasAny(recipient) was false;
\* the persisted secret is not accepted and has a base id of exactly 32
\* bytes; when a secret exists no bundle is fetched and no secret is created.
C14_SessionEstablishment ==
    /\ [](smPc \in EstablishesSession => secrets = {})
    /\ [][(smPc = "HasAny" /\ smPc' \notin {"HasAny", "idle"}) =>
            smPc' = (IF secrets = {} THEN "FetchPreKeyBundle" ELSE "GetYoungest")]_vars
    /\ [][(smPc' = "GetYoungest" /\ smPc # "GetYoungest") =>
            \/ smPc = "HasAny" /\ secrets' = secrets /\ proto' = NoSecret
            \/ /\ smPc = "PutSecret"
               /\ \E x \in secrets' :
                    /\ secrets' = secrets \cup {x}
                    /\ x \notin secrets
                    /\ ~x.accepted
                    /\ x.baseIDLen = 32]_vars
    /\ [][(\E x \in secrets' : x \notin secrets /\ ~x.accepted) => smPc = "PutSecret"]_vars

\* C14 witness: the first call persisted a secret; the second call found it
\* and went on to GetYoungest without a bundle and without a new secret
C14_Witness ==
    /\ sendCount = 2
    /\ smPc = "HasSignedPreKey"
    /\ Cardinality(secrets) = 1
    /\ proto = NoSecret
    /\ \A x \in secrets : ~x.accepted /\ x.baseIDLen = 32

\* the positions of SendMessage after GetYoungest
UsesSecret ==
    {"HasSignedPreKey", "Refresh", "RefreshExpired", "FetchSignedPreKey",
     "FetchSignedPreKeyExpired", "CheckExpired"} \cup UsesSignedPreKey

\* C15: after any sequence of Puts for a partner, several unaccepted secrets
\* coexisting, GetYoungest returns the stored secret with the greatest
\* CreatedAt, and SendMessage uses exactly that secret.
C15_YoungestWins ==
    /\ [][(smPc = "GetYoungest" /\ smPc' = "HasSignedPreKey") =>
            /\ ss' \in secrets
            /\ \A y \in secrets : y.createdAt <= ss'.createdAt]_vars
    /\ [][(smPc \in UsesSecret) => UNCHANGED ss]_vars
    /\ [][submitted' # submitted =>
            submitted' = Append(submitted,
                                IF ss.accepted THEN NoFields ELSE HandshakeFieldsOf(ss))]_vars

\* C15 witness: three unaccepted secrets coexist, the one SendMessage put
\* and two of racing flows, and the message was submitted with the youngest,
\* which is not the one the call put itself
C15_Witness ==
    /\ Cardinality({x \in secrets : ~x.accepted}) >= 3
    /\ smPc = "UpdateSent"
    /\ ss \in secrets
    /\ \A y \in secrets : y.createdAt <= ss.createdAt
    /\ ss.createdAt > sendCount
    /\ \E x \in secrets : x.createdAt = sendCount

----------------------------------------------------------------------------
(* Properties of the request handlers of the chat *)

\* C16: for a request with a non-empty batch, messagesHandler starts one
\* task per message and returns its acknowledgement only after every task
\* has finished, under every interleaving of the tasks.
C16_BatchJoin ==
    /\ [](mhPc = "wait" => \A i \in 1..Len(mhBatch) : taskPc[i] # "none")
    /\ [](mhRet = "resp" =>
            /\ Len(mhBatch) > 0
            /\ \A i \in 1..Len(mhBatch) : taskPc[i] = "done"
            /\ Len(finished) = Len(mhBatch))
    /\ [][(mhPc = "wait" /\ mhPc' = "done") =>
            /\ mhRet' = "resp"
            /\ \A i \in 1..Len(mhBatch) : taskPc[i] = "done"]_vars

\* C16 witness: the acknowledgement of a batch of three or more messages
\* whose tasks finished in another order than they were started
C16_Witness ==
    /\ mhRet = "resp"
    /\ Len(mhBatch) >= 3
    /\ finished[1] > finished[2]
    /\ finished[Len(finished)] = 1

\* C17: in a batch every message is handled exactly once whatever the
\* outcome of its siblings; the failure of one message neither prevents nor
\* aborts the handling of another, and the batch handler returns no error.
C17_FailureIsolation ==
    /\ [](\A i \in 1..Len(mhBatch) : handled[i] <= 1)
    /\ [](mhPc = "done" =>
            /\ \A i \in 1..Len(mhBatch) : handled[i] = 1
            /\ logged = {i \in 1..Len(mhBatch) : mhBatch[i] = "bad"}
            /\ mhRet = IF Len(mhBatch) > 0 THEN "resp" ELSE "nil")

\* C17 witness: the first message of a batch failed and its task finished
\* first; its siblings were handled after that and the batch was acknowledged
C17_Witness ==
    /\ mhPc = "done"
    /\ Len(mhBatch) >= 3
    /\ mhBatch[1] = "bad"
    /\ finished[1] = 1
    /\ \E i \in 2..Len(mhBatch) : mhBatch[i] = "ok" /\ handled[i] = 1
    /\ \E i \in 2..Len(mhBatch) : mhBatch[i] = "bad" /\ handled[i] = 1
    /\ mhRet = "resp"

\* C18: a request for N one time pre keys with N > 100 is rejected with an
\* error and generates and persists no key; for every N with 1 <= N <= 100
\* the response contains exactly N signed pre keys, the public halves of
\* exactly the N key pairs put into the pool.
C18_PreKeyReplenishment ==
    [][replenishCount' # replenishCount =>
          LET n    == otpkReq'.n
              keys == otpkRet'.keys
              put  == pool' \ pool
          IN /\ n > MaxOneTimePreKeys =>
                  /\ otpkRet'.kind = "err"
                  /\ keyCount' = keyCount
                  /\ put = {}
             /\ n \in 1..MaxOneTimePreKeys =>
                  /\ otpkRet'.kind = (IF otpkReq'.fails = "none" THEN "resp" ELSE "err")
                  /\ otpkRet'.kind = "resp" =>
                       /\ Len(keys) = n
                       /\ Cardinality(put) = n
                       /\ \A i \in 1..n : keys[i].signed
                       /\ {keys[i].PublicKey : i \in 1..n} = {kp.PublicKey : kp \in put}
                       /\ Cardinality({keys[i].PublicKey : i \in 1..n}) = n
             /\ pool \subseteq pool']_vars

\* C18 witness: a request for 101 keys was rejected after a request for 100
\* keys was answered with 100 signed keys, the pool holding their 100 pairs
C18_Witness ==
    /\ replenishCount = 2
    /\ otpkReq.n = MaxOneTimePreKeys + 1
    /\ otpkRet.kind = "err"
    /\ Cardinality(pool) = MaxOneTimePreKeys
    /\ keyCount = MaxOneTimePreKeys

----------------------------------------------------------------------------
(* Properties of the key agreement *)

\* the private bundle given to HandleInitialMessage is the one whose public
\* halves InitializeChat was run against
MatchingBundle ==
    /\ kaAccept.bundle.SignedPreKey = kaKeys.signedPreKey
    /\ kaAccept.bundle.OneTimePreKey = kaKeys.oneTimePreKey

\* C19: for every valid bundle of the partner, the shared secret that
\* HandleInitialMessage computes from the message of InitializeChat and the
\* matching private bundle equals the shared secret the initiator derived.
C19_RoundTrip ==
    (/\ kaAccept # NoResult
     /\ kaWire = kaInit.msg
     /\ MatchingBundle
     /\ ~kaAccept.fails)
        => /\ kaAccept.kind = "secret"
           /\ kaAccept.secret = kaInit.secret

\* C19 witness: the round trip with keys that differ from each other, so
\* that a wrong key gives another secret
C19_Witness ==
    /\ kaAccept # NoResult
    /\ kaAccept.kind = "secret"
    /\ kaWire = kaInit.msg
    /\ MatchingBundle
    /\ kaAccept.secret = kaInit.secret
    /\ kaKeys.ephemeral # kaKeys.initiator
    /\ kaKeys.signedPreKey # kaKeys.oneTimePreKey
    /\ kaKeys.signedPreKey # kaKeys.ephemeral

\* C20: HandleInitialMessage fails for every handshake message whose
\* signature does not verify; no shared secret is returned for a message
\* that was altered after InitializeChat signed it.
C20_TamperDetected ==
    (kaAccept # NoResult /\ ~VerifySignature(kaWire)) => kaAccept.kind = "err"

\* C21: HandleInitialMessage returns an error and computes no secret when
\* the message type is not "PROTOCOL_INITIALISATION", when the ephemeral key
\* field is absent, or when the remote identity field is absent.
C21_HandshakeValidated ==
    (/\ kaAccept # NoResult
     /\ \/ kaWire.Type # "PROTOCOL_INITIALISATION"
        \/ "ephemeral_key" \notin DOMAIN kaWire.AdditionalData
        \/ kaWire.HeaderDH = ZeroKey)
        => kaAccept.kind = "err"

----------------------------------------------------------------------------
(* Properties of the remote key stores *)

C23_PutSendsCipherTextOnly ==
    ksSent.op = "Put" =>
        /\ ~ksOp.encryptFails
        /\ ksSent.key = AESEncrypt(ksOp.mk)

\* C24: every operation of a remote key store (Get, Put, DeleteMessageKey,
\* DeleteSessionKeys, Count) eventually returns to its caller, also when no
\* response to its request ever arrives.
C24_OperationsReturn ==
    (ksPc = "waiting") ~> (ksPc = "returned")

\* what the reference key map answers to Get(k, n)
RefGet(k, n) ==
    LET found == {e \in ksRef : e.k = k /\ e.n = n}
    IN IF found = {} THEN [key |-> ZeroMessageKey, ok |-> FALSE]
       ELSE [key |-> (CHOOSE e \in found : TRUE).mk, ok |-> TRUE]

\* C25: against a remote store that answers faithfully, each remote key
\* store behaves like one reference key map: Get after Put returns the key,
\* Get after DeleteMessageKey or DeleteSessionKeys returns not found, and
\* Count(k) is the number of keys stored for k.
C25_BehavesLikeKeyMap ==
    (~ksFailed /\ ksPc = "returned") =>
        /\ ksOp.op = "Get" => ksRet = RefGet(ksOp.k, ksOp.n)
        /\ ksOp.op = "Count" =>
              ksRet.count = Cardinality({e \in ksRef : e.k = ksOp.k})

----------------------------------------------------------------------------
(* Properties of the message store *)

\* C26: for each partner, across successful persists with non-decreasing
\* CreatedAt, the DatabaseIDs assigned are pairwise distinct and strictly
\* increasing, also when two, three or more persists carry the same
\* CreatedAt: a persist whose CreatedAt is not below that of any record of
\* the partner is assigned a DatabaseID above every key of the bucket (the
\* keys of the bucket are the DatabaseIDs assigned so far).
C26_DatabaseIDOrder ==
    [][(msCalls' = msCalls + 1) =>
          LET bucket == msStore[msEvent'.Partner]
          IN (\A k \in DOMAIN bucket :
                 decRawMsg(bucket[k]).CreatedAt <= msEvent'.Message.CreatedAt)
                => \A k \in DOMAIN bucket : k < msEvent'.DBMessageID]_vars

\* C27: a persist never overwrites or removes a record: every record of
\* every bucket is still stored, unchanged, under its key after every step.
C27_NoRecordLost ==
    [][\A p \in Partners : \A k \in DOMAIN msStore[p] :
          /\ k \in DOMAIN msStore'[p]
          /\ msStore'[p][k] = msStore[p][k]]_vars

\* C28: Messages(partner, 0, 1) called after a successful
\* PersistMessageToSend for the partner returns exactly one message: it has
\* the ID the persist assigned, Status Persisted, Received = false, and its
\* DatabaseID is the key it is stored under.
C28_PersistReadRoundTrip ==
    [][(/\ msOp.op = "PersistMessageToSend"
        /\ ~msRet.err
        /\ msOp'.op = "Messages"
        /\ msOp'.partner = msOp.partner
        /\ msOp'.start = 0
        /\ msOp'.amount = 1)
        => /\ ~msRet'.err
           /\ Len(msRet'.messages) = 1
           /\ msRet'.messages[1].ID = msOp.msg.ID
           /\ msRet'.messages[1].Status = StatusPersisted
           /\ ~msRet'.messages[1].Received
           /\ msRet'.messages[1].DatabaseID \in DOMAIN msStore[msOp.partner]
           /\ decRawMsg(msStore[msOp.partner][msRet'.messages[1].DatabaseID])
                 = msRet'.messages[1]]_vars

\* the structural rules of a message, and the messages that break one
ViolatesRule(m) ==
    \/ m.ID = 0
    \/ m.Status \notin statuses
    \/ (m.Message = 0 /\ ~m.DApp.present)
    \/ m.CreatedAt <= 0
    \/ (m.Sender # PublicKeyLength /\ ~m.DApp.present)
    \/ (m.DApp.present /\ m.DApp.DAppPublicKey # PublicKeyLength)

CandidateMessages ==
    [ID : {0, 1}, Version : {DAppMessageVersion}, Status : statuses \cup {0},
     Received : BOOLEAN, DApp : {NoDApp} \cup DApps, Message : {0, 1},
     CreatedAt : 0..MaxTime, Sender : {0, PublicKeyLength}, DatabaseID : {0}]

EveryViolationRefused ==
    \A m \in CandidateMessages : ViolatesRule(m) => ~ValidMessage(m)

PersistOperations ==
    {"PersistMessageToSend", "PersistReceivedMessage", "PersistDAppMessage"}

\* C29: a message that violates a structural rule (empty id, unregistered
\* status, empty payload without a DApp message, CreatedAt <= 2147483647,
\* sender not of 32 bytes without a DApp message, DApp public key not of 32
\* bytes) is refused by ValidMessage; a persist of such a message returns
\* an error, leaves the store unchanged and hands no event to the listeners;
\* every stored record satisfies the rules.
C29_ValidationBeforeWrite ==
    /\ [] EveryViolationRefused
    /\ [][(msOp'.op \in PersistOperations /\ ViolatesRule(msOp'.msg)) =>
             /\ msRet'.err
             /\ msStore' = msStore
             /\ msEvent' = NoEvent]_vars
    /\ [](\A p \in Partners : \A k \in DOMAIN msStore[p] :
             ~ViolatesRule(decRawMsg(msStore[p][k])))

\* C29 witness: a received message whose CreatedAt is 2147483647, valid
\* otherwise, was refused while the bucket of the partner held records
C29_Witness ==
    /\ msOp.op = "PersistReceivedMessage"
    /\ msOp.msg.CreatedAt = 0
    /\ ValidMessage([msOp.msg EXCEPT !.CreatedAt = 1])
    /\ msRet.err
    /\ msEvent = NoEvent
    /\ Cardinality(DOMAIN msStore[msOp.partner]) >= 2

\* C30: Messages(partner, 0, amount) with amount >= 1 returns
\* min(amount, number of stored messages) items, the stored messages with
\* the greatest DatabaseIDs, in strictly ascending order of DatabaseID; with
\* amount = 0 it returns an error.
C30_MostRecentAscending ==
    (msOp.op = "Messages" /\ msOp.start = 0) =>
        LET bucket == msStore[msOp.partner]
            got == msRet.messages
            stored == Cardinality(DOMAIN bucket)
        IN IF msOp.amount = 0
           THEN msRet.err
           ELSE /\ ~msRet.err
                /\ Len(got) = IF msOp.amount < stored THEN msOp.amount ELSE stored
                /\ \A i \in 1..Len(got) :
                      /\ got[i].DatabaseID \in DOMAIN bucket
                      /\ got[i] = decRawMsg(bucket[got[i].DatabaseID])
                /\ \A i \in 1..(Len(got) - 1) :
                      got[i].DatabaseID < got[i + 1].DatabaseID
                /\ {got[i].DatabaseID : i \in 1..Len(got)} =
                      {k \in DOMAIN bucket :
                          Cardinality({j \in DOMAIN bucket : k < j}) < Len(got)}

\* C30 witness: two messages were asked of a bucket of three records
C30_Witness ==
    /\ msOp.op = "Messages"
    /\ msOp.start = 0
    /\ msOp.amount = 2
    /\ Cardinality(DOMAIN msStore[msOp.partner]) = 3
    /\ Len(msRet.messages) = 2
    /\ msRet.messages[1].DatabaseID < msRet.messages[2].DatabaseID

\* C31: a persist that commits starts exactly one notification for every
\* registered listener, with the stored message and the partner; a persist
\* that fails starts none and no other step starts one; every notification
\* started reaches its listener (again and again none is outstanding); what
\* the listeners do changes neither the result of the persist nor the store.
C31_ListenersNotifiedOnCommit ==
    /\ [][IF msCalls' = msCalls + 1
          THEN /\ DOMAIN msNotified' = DOMAIN msNotified
               /\ \A l \in DOMAIN msNotified :
                     /\ msNotified'[l] = Append(msNotified[l], msEvent')
                     /\ msEvent'.Message = decRawMsg(msStore'[msEvent'.Partner][msEvent'.DBMessageID])
                     /\ msEvent'.Partner = msOp'.partner
          ELSE \A l \in DOMAIN msNotified : msNotified'[l] = msNotified[l]]_vars
    /\ [][msDelivered' # msDelivered => UNCHANGED << msStore, msRet, msOp >>]_vars
    /\ [](\A l \in DOMAIN msNotified : msDelivered[l] <= Len(msNotified[l]))
    /\ []<>(\A l \in DOMAIN msNotified : msDelivered[l] = Len(msNotified[l]))

\* C31 witness: two listeners were each notified of two commits, every
\* notification has reached its listener, and the persist after them failed
C31_Witness ==
    /\ Len(msNotified) = 2
    /\ \A l \in 1..2 : Len(msNotified[l]) = 2 /\ msDelivered[l] = 2
    /\ msNotified[1] = msNotified[2]
    /\ msRet.err

----------------------------------------------------------------------------
(* Properties of the shared secret store *)

\* C32: after Put(partner, s), Accept(partner, s) makes Get(partner, s.BaseID)
\* return the secret with Accepted = true; Accept of an accepted secret changes
\* nothing; no operation turns Accepted back to false and none deletes a
\* stored secret
C32_AcceptPromotesOnly ==
    /\ [](sssOp.op = "Accept" =>
            Get(sssStore, sssOp.partner, sssOp.secret.BaseID)
               = [sssOp.secret EXCEPT !.Accepted = TRUE])
    /\ [](sssOp.op = "Put" /\ ~sssRet.err =>
            Get(sssStore, sssOp.partner, sssOp.secret.BaseID) = sssOp.secret)
    /\ [][(sssOp'.op = "Accept" /\ sssOp'.secret.Accepted)
            => sssStore' = sssStore]_vars
    /\ [][\A p \in SecretPartners : \A x \in sssStore[p] :
            Get(sssStore', p, x.BaseID) \in {x, [x EXCEPT !.Accepted = TRUE]}]_vars

\* an accepted secret is accepted once more, beside another secret of the
\* partner that is not accepted
C32_Witness ==
    /\ sssOp.op = "Accept"
    /\ sssOp.secret.Accepted
    /\ \E x \in sssStore[sssOp.partner] : ~x.Accepted

\* C33: SecretForChatInitMsg(partner, id) returns the secret put for the
\* partner with the id of the negotiation parameters, whatever its CreatedAt
\* is against the other secrets of the partner
C33_ResolvedByNegotiationID ==
    sssOp.op = "SecretForChatInitMsg" =>
        LET put == {x \in sssStore[sssOp.partner] :
                       x.IDInitParams = sssOp.secret.IDInitParams} IN
        IF put = {} THEN sssRet.secret = NoSecret ELSE sssRet.secret \in put

\* the secret returned is older than another secret of the partner
C33_Witness ==
    /\ sssOp.op = "SecretForChatInitMsg"
    /\ sssRet.secret # NoSecret
    /\ \E y \in sssStore[sssOp.partner] : y.CreatedAt > sssRet.secret.CreatedAt

----------------------------------------------------------------------------
(* Further properties of the backend transport *)

\* C34: the correlation entry of an outgoing request is registered before its
\* transmission starts: the table holds the RequestID when the transmit
\* goroutine is started, and a request on the wire whose RequestID is not in
\* the table has had a response or a transport error processed for it
C34_RegisteredBeforeTransmission ==
    /\ [][\A id \in transmitting' \ transmitting : StackHas(stack', id)]_vars
    /\ [](\A id \in transmitting \cup onWire :
            StackHas(stack, id) \/ respChan[id] # << >>)

\* a request is on the wire with its entry in the table and nothing processed
\* for it, beside another on the wire whose entry has been cut
C34_Witness ==
    \E id \in onWire :
        /\ StackHas(stack, id)
        /\ respChan[id] = << >>
        /\ \E other \in onWire : other # id /\ ~StackHas(stack, other)

\* C35: the authenticated flag starts false and changes from false to true
\* only, in a turn of the callback on a Response with the Auth marker, an
\* empty Error and the RequestID of a pending entry; a Response with an Error
\* delivers the error only and leaves the flag; no request turn and no step
\* of Send or of the send loop changes the flag
C35_AuthenticatedFlag ==
    /\ (~authenticated)
    /\ [][authenticated' # authenticated =>
            /\ ~authenticated /\ authenticated'
            /\ dispatch'.kind = "response"
            /\ inbound'.Request = Nil /\ inbound'.Response # Nil
            /\ inbound'.Response.auth
            /\ inbound'.Error = ""
            /\ StackHas(stack, inbound'.RequestID)]_vars
    /\ [][(dispatch'.kind = "response" /\ inbound'.Error # ""
              /\ StackHas(stack, inbound'.RequestID)) =>
            /\ authenticated' = authenticated
            /\ respChan' = [respChan EXCEPT ![inbound'.RequestID] =
                   Append(@, [kind |-> "remoteErr", id |-> inbound'.RequestID])]]_vars

\* the flag is set, and a later Response with an Error was delivered to a
\* pending request
C35_Witness ==
    /\ authenticated
    /\ dispatch.kind = "response"
    /\ inbound.Error # ""
    /\ ~dispatch.err
    /\ loopPc = "select"

\* C36: the callback holds the lock for the whole turn and still there is no
\* deadlock: the goroutine that holds the lock can always take a step, also
\* when a handler sends a request and waits for its response or calls
\* AddRequestHandler
C36_LockHolderProceeds ==
    \A t \in Turns : lkHolder = t => ENABLED LK_TurnStep(t)

----------------------------------------------------------------------------
(* Further properties of the one time pre keys *)

\* C37: a call of oneTimePreKeysHandler that returns an error (a count above
\* the limit, a failing key generation, persistence, signing or conversion)
\* leaves the pool of one time pre keys as it was
C37_ErrorLeavesPool ==
    [][(replenishCount' # replenishCount /\ otpkRet'.kind = "err") => pool' = pool]_vars

----------------------------------------------------------------------------
(* Properties of the device api *)

\* C38: whenever Receive removes the entry of a call registered by Send,
\* whatever the data, exactly one Response is delivered on the channel of the
\* call; a Receive for an id without an entry returns an error and delivers
\* nothing
C38_OneResponsePerCall ==
    [][/\ \A id \in CallIDs :
            (StateHas(daState, id) /\ ~StateHas(daState', id))
               => Len(daChan'[id]) = Len(daChan[id]) + 1
       /\ \A id \in CallIDs : Len(daChan'[id]) <= 1
       /\ (daRecv' # daRecv /\ ~StateHas(daState, daRecv'.id))
             => daRecv'.err /\ daChan' = daChan]_vars

----------------------------------------------------------------------------
(* Further properties of the message store *)

\* C39: for start # 0 and amount >= 1, Messages returns without an error the
\* up to amount stored messages of the partner with the greatest DatabaseIDs
\* that are <= start, in ascending order (an empty list when there is none);
\* no returned message has a DatabaseID > start
C39_PageUpToStart ==
    (msOp.op = "Messages" /\ msOp.start # 0 /\ msOp.amount >= 1) =>
        LET bucket == msStore[msOp.partner]
            got == msRet.messages
            upTo == {k \in DOMAIN bucket : k <= msOp.start}
            page == {k \in upTo : Cardinality({j \in upTo : j > k}) < msOp.amount}
        IN /\ ~msRet.err
           /\ {got[i].DatabaseID : i \in 1..Len(got)} = page
           /\ Len(got) = Cardinality(page)
           /\ \A i \in 1..Len(got) - 1 : got[i].DatabaseID < got[i + 1].DatabaseID

----------------------------------------------------------------------------
(* Properties of the process-wide instance *)

\* C40: there is at most one instance; a start while one exists returns an
\* error and leaves it as it is; a start that fails leaves no instance; Stop
\* without an instance returns an error; Stop with an instance clears it,
\* also when the Stop of the instance returns an error, and a start is
\* permitted again; every other exported operation returns an error while
\* there is no instance
C40_InstanceLifecycle ==
    [][piCalls' # piCalls =>
        /\ piOp'.had = (panthalassaInstance # NoInstance)
        /\ IF piOp'.op = "start"
           THEN /\ piOp'.had => piOp'.err
                /\ piOp'.err => panthalassaInstance' = panthalassaInstance
                /\ ~piOp'.err => panthalassaInstance' # NoInstance
           ELSE IF piOp'.op = "Stop"
           THEN /\ ~piOp'.had => piOp'.err
                /\ panthalassaInstance' = NoInstance
           ELSE /\ ~piOp'.had => piOp'.err
                /\ panthalassaInstance' = panthalassaInstance]_vars

\* an instance was started again after the Stop of the one before had
\* returned an error
C40_Witness ==
    /\ piOp.op = "start"
    /\ ~piOp.err
    /\ piOp.after = "Stop failed"
    /\ panthalassaInstance = [id |-> piOp.n]

====
